---- MODULE Spec2Model ----
(***************************************************************************)
(* Model of the query-translation code of the handlers:                    *)
(*   - MilvusHandler (milvus_handler.py): operator table, metadata filter  *)
(*     translation, select, delete;                                        *)
(*   - YoutubeCommentsTable, YoutubeChannelsTable, YoutubeVideosTable      *)
(*     (youtube_tables.py): select;                                        *)
(*   - llm_utils.py: chat validation and formatting, argument validation,  *)
(*     prompt completion;                                                  *)
(*   - MySQLHandler (mysql_handler.py): connect, disconnect,               *)
(*     check_connection, native_query;                                     *)
(*   - NewsTable (cryptopanic_tables.py): select.                          *)
(* A specification draws the arguments of one call in its initial state    *)
(* and its actions apply the code to them, recording the remote requests   *)
(* issued and the outcome of the call; the specification of MySQLHandler   *)
(* follows the connection of one handler through a sequence of calls.      *)
(***************************************************************************)
EXTENDS Integers, Sequences, FiniteSets, TLC

VARIABLES
    mv_request,     \* arguments of the MilvusHandler call and what the remote side will do
    mv_remote,      \* the calls made on the pymilvus Collection, in order
    mv_response,    \* outcome of the call: a returned value or a raised exception
    mv_pc,          \* "ready" before the call, then the name of the method that ran
    yt_request,     \* the ast.Select given to YoutubeCommentsTable.select and the API's answer
    yt_remote,      \* the calls made to call_youtube_comments_api, in order
    yt_response,    \* outcome of the select
    yt_order_by,    \* order_by_conditions of the select, once its ORDER BY loop is through
    yt_pc,          \* "ready" before the call, "select" after it
    llm_request,    \* arguments of the call of a function of llm_utils
    llm_response,   \* outcome of that call
    llm_pc,         \* "ready" before the call, then the name of the function that ran
    my_connection,  \* self.connection of the MySQLHandler: None, or whether it is open
    my_request,     \* the last call made on the MySQLHandler and what the server did
    my_response,    \* outcome of that call
    my_was_connected, \* whether the handler was connected when that call began
    my_calls,       \* the number of calls made on the MySQLHandler
    my_pc,          \* "ready" before a call, then the name of the method that ran
    cp_request,     \* the ast.Select given to NewsTable.select and the API's answer
    cp_remote,      \* the calls made to call_cryptopanic_api, in order
    cp_response,    \* outcome of the select
    cp_pc           \* "ready" before the call, "select" after it

vars == <<mv_request, mv_remote, mv_response, mv_pc,
          yt_request, yt_remote, yt_response, yt_order_by, yt_pc,
          llm_request, llm_response, llm_pc,
          my_connection, my_request, my_response, my_was_connected, my_calls, my_pc,
          cp_request, cp_remote, cp_response, cp_pc>>

mv_vars == <<mv_request, mv_remote, mv_response, mv_pc>>
yt_vars == <<yt_request, yt_remote, yt_response, yt_order_by, yt_pc>>
llm_vars == <<llm_request, llm_response, llm_pc>>
my_vars == <<my_connection, my_request, my_response, my_was_connected, my_calls, my_pc>>
cp_vars == <<cp_request, cp_remote, cp_response, cp_pc>>

----------------------------------------------------------------------------
(* Python values *)

\* Python's None and a present value of an optional argument or result
None == [some |-> FALSE]
Some(x) == [some |-> TRUE, v |-> x]

\* outcome of a call: it returns a value or raises
Return(value) == [raised |-> FALSE, value |-> value]
Raise(exc, msg) == [raised |-> TRUE, exc |-> exc, msg |-> msg]

\* dict[key] = value
Put(d, key, value) == (key :> value) @@ d

\* "".join(parts)
RECURSIVE Concat(_)
Concat(parts) ==
    IF parts = <<>> THEN "" ELSE Head(parts) \o Concat(Tail(parts))

\* sep.join(parts)
RECURSIVE Join(_, _)
Join(sep, parts) ==
    IF parts = <<>> THEN ""
    ELSE IF Len(parts) = 1 THEN parts[1]
    ELSE parts[1] \o sep \o Join(sep, Tail(parts))

\* A string is kept as the sequence of the pieces it is written from, with
\* "." always a piece of its own: "metadata.price" is <<"metadata", ".", "price">>.
\* s.split('.')[-1]: the pieces after the last "."
RECURSIVE LastSegment(_)
LastSegment(s) ==
    IF \E i \in 1..Len(s) : s[i] = "."
    THEN LastSegment(Tail(s))
    ELSE s

\* s.startswith(prefix), prefix one piece
StartsWith(s, prefix) == Len(s) >= 1 /\ s[1] = prefix

\* f"{value}" of a condition value: an int, a str or a list of ints
FormatValue(value) ==
    CASE value.t = "int" -> ToString(value.int)
      [] value.t = "str" -> value.str
      [] value.t = "list" ->
            "[" \o Join(", ", [i \in 1..Len(value.list) |-> ToString(value.list[i])]) \o "]"

----------------------------------------------------------------------------
(* mindsdb.integrations.libs.vectordatabase_handler, as MilvusHandler uses it *)

\* TableField values
TableField ==
    [ID |-> "id", CONTENT |-> "content", EMBEDDINGS |-> "embeddings",
     METADATA |-> "metadata", SEARCH_VECTOR |-> "search_vector",
     DISTANCE |-> "distance"]

\* names of self.SCHEMA
SCHEMA == <<"id", "content", "embeddings", "metadata">>

RESPONSE_TYPE == [OK |-> "ok", TABLE |-> "table", ERROR |-> "error"]

Response(resp_type, error_message) ==
    [resp_type |-> resp_type, error_message |-> error_message]

----------------------------------------------------------------------------
(* MilvusHandler *)

\* the mapping of _get_milvus_operator
mapping ==
    ("EQUAL" :> "==") @@ ("NOT_EQUAL" :> "!=") @@ ("LESS_THAN" :> "<")
    @@ ("LESS_THAN_OR_EQUAL" :> "<=") @@ ("GREATER_THAN" :> ">")
    @@ ("GREATER_THAN_OR_EQUAL" :> ">=") @@ ("IN" :> "in")
    @@ ("NOT_IN" :> "not in") @@ ("LIKE" :> "like") @@ ("NOT_LIKE" :> "not like")

get_milvus_operator(operator) ==
    IF operator \notin DOMAIN mapping
    THEN Raise("Exception", "Operator " \o operator \o " is not supported by Milvus!")
    ELSE Return(mapping[operator])

\* the methods the class body of MilvusHandler defines; the only
\* operator-mapping method among them is _get_milvus_operator
MilvusHandlerMethods ==
    {"__init__", "__del__", "connect", "disconnect", "check_connection",
     "get_tables", "drop_table", "_get_milvus_operator",
     "_translate_metadata_conditions", "select", "create_table", "insert",
     "delete", "get_columns"}

\* self.<name>(operator) for an operator-mapping method: the lookup of a name
\* that is no method of the handler raises AttributeError
CallOperatorMethod(name, operator) ==
    IF name \notin MilvusHandlerMethods
    THEN Raise("AttributeError",
               "'MilvusHandler' object has no attribute '" \o name \o "'")
    ELSE get_milvus_operator(operator)

\* the loop of _translate_metadata_conditions over metadata_conditions: the
\* terms built so far, or the exception of the first term that raises
RECURSIVE MilvusTerms(_)
MilvusTerms(metadata_conditions) ==
    IF metadata_conditions = <<>> THEN Return(<<>>)
    ELSE LET condition == Head(metadata_conditions)
             op == CallOperatorMethod("_get_chromadb_operator", condition.op)
             rest == MilvusTerms(Tail(metadata_conditions))
         IN  IF op.raised THEN op
             ELSE IF rest.raised THEN rest
             ELSE Return(<<"(" \o Concat(LastSegment(condition.column)) \o " "
                             \o op.value \o " " \o FormatValue(condition.value)
                             \o ")">> \o rest.value)

translate_metadata_conditions(conditions) ==
    IF conditions = None THEN Return(None)
    ELSE LET metadata_conditions ==
                 SelectSeq(conditions.v,
                           LAMBDA c : StartsWith(c.column, TableField.METADATA))
             milvus_conditions == MilvusTerms(metadata_conditions)
         IN  IF Len(metadata_conditions) = 0 THEN Return(None)
             ELSE IF milvus_conditions.raised THEN milvus_conditions
             ELSE IF milvus_conditions.value # <<>>
                  THEN Return(Some(Join(" and ", milvus_conditions.value)))
                  ELSE Return(None)

\* NOTE at select: "sum of offset and limit should be less than 16384"
api_limit == 16384

\* the limit select gives a query that has no expression and no limit
default_query_limit == 100

\* self._search_params, taken from the connection data by __init__
search_params == [metric_type |-> "L2"]

\* what a call leaves behind: the remote calls it made and its outcome
Outcome(remote, response) == [remote |-> remote, response |-> response]

\* one call on the pymilvus Collection
RemoteCall(method, kwargs) == [method |-> method, kwargs |-> kwargs]

\* the vector-search branch of select, from search_arguments["data"] = ... on
select_search(columns, vector_filter, search_arguments, remote_ok) ==
    LET args == Put(Put(Put(search_arguments, "data", vector_filter),
                        "anns_field", TableField.EMBEDDINGS),
                    "param", search_params)
        call == <<RemoteCall("search", args)>>
    IN  IF ~remote_ok
        THEN Outcome(call, Raise("MilvusException", "search failed"))
        ELSE IF columns = None
        THEN \* TableField.CONTENT.value in None
             Outcome(call, Raise("TypeError",
                                 "argument of type 'NoneType' is not iterable"))
        ELSE Outcome(call, Return(Response(RESPONSE_TYPE.TABLE, "")))

\* the basic-search branch of select
select_query(columns, search_arguments, remote_ok) ==
    LET no_expr == search_arguments["expr"] = None
        a1 == IF no_expr THEN Put(search_arguments, "expr", Some("")) ELSE search_arguments
        a2 == IF no_expr /\ "limit" \notin DOMAIN a1
              THEN Put(a1, "limit", default_query_limit) ELSE a1
        a3 == Put(a2, "output_fields",
                  IF columns = None \/ columns.v = <<>>
                  THEN <<TableField.ID, TableField.CONTENT,
                         TableField.EMBEDDINGS, TableField.METADATA>>
                  ELSE columns.v)
        call == <<RemoteCall("query", a3)>>
    IN  IF ~remote_ok
        THEN Outcome(call, Raise("MilvusException", "query failed"))
        ELSE Outcome(call, Return(Response(RESPONSE_TYPE.TABLE, "")))

\* [schema_obj.name for schema_obj in self.SCHEMA]. SCHEMA is VectorStoreHandler's;
\* select reads its entries as objects (.name) while get_columns reads them
\* as dicts (["name"]), and `.name` of a dict raises AttributeError: the list
\* of names and the exception are both kept as outcomes
schema_names ==
    { Return(SCHEMA),
      Raise("AttributeError", "'dict' object has no attribute 'name'") }

\* select from the translation of the conditions on, output_fields given
select_with(output_fields, columns, conditions, offset, limit, remote_ok) ==
    LET vector_filter ==
            IF conditions = None THEN <<>>
            ELSE LET found == SelectSeq(conditions.v,
                                 LAMBDA c : c.column = <<TableField.SEARCH_VECTOR>>)
                 IN  [i \in 1..Len(found) |-> found[i].value]
        expr == translate_metadata_conditions(conditions)
    IN  IF expr.raised THEN Outcome(<<>>, expr)
        ELSE
        LET a0 == ("output_fields" :> output_fields) @@ ("expr" :> expr.value)
            a1 == IF limit # None THEN Put(a0, "limit", limit.v) ELSE a0
        IN  IF limit # None /\ offset # None /\ limit.v + offset.v >= api_limit
            THEN Outcome(<<>>, Return(Response(RESPONSE_TYPE.ERROR,
                     "Sum of limit and offset should be less than "
                     \o ToString(api_limit))))
            ELSE IF offset # None /\ "param" \notin DOMAIN a1
            THEN \* search_arguments["param"]["offset"] = offset
                 Outcome(<<>>, Raise("KeyError", "'param'"))
            ELSE
            LET a2 == IF offset # None
                      THEN Put(a1, "param", Put(a1["param"], "offset", offset.v))
                      ELSE a1
            IN  IF vector_filter # <<>>
                THEN select_search(columns, vector_filter, a2, remote_ok)
                ELSE select_query(columns, a2, remote_ok)

\* MilvusHandler.select: the outcomes the call can have; load_ok and
\* remote_ok say whether collection.load() and the search or query succeed
select(columns, conditions, offset, limit, load_ok, remote_ok) ==
    IF ~load_ok
    THEN { Outcome(<<>>, Return(Response(RESPONSE_TYPE.ERROR, "Error loading collection"))) }
    ELSE { IF output_fields.raised THEN Outcome(<<>>, output_fields)
           ELSE select_with(output_fields.value, columns, conditions, offset,
                            limit, remote_ok) :
             output_fields \in IF columns # None /\ columns.v # <<>>
                               THEN { Return(columns.v) }
                               ELSE schema_names }

\* MilvusHandler.delete; load_ok and remote_ok say whether
\* Collection(table_name) and collection.delete succeed
delete(conditions, load_ok, remote_ok) ==
    LET metadata_filter == translate_metadata_conditions(conditions)
    IN  IF metadata_filter.raised THEN Outcome(<<>>, metadata_filter)
        ELSE IF conditions = None
        THEN \* for condition in conditions
             Outcome(<<>>, Raise("TypeError", "'NoneType' object is not iterable"))
        ELSE
        LET found == SelectSeq(conditions.v, LAMBDA c : c.column = <<TableField.ID>>)
            id_filters == [i \in 1..Len(found) |-> found[i].value]
            request == <<RemoteCall("delete", ("expr" :> metadata_filter.value))>>
        IN  IF id_filters # <<>>
            THEN Outcome(<<>>, Return(Response(RESPONSE_TYPE.ERROR,
                     "Milvus does not support deletion by IDs")))
            ELSE IF metadata_filter.value = None \/ metadata_filter.value.v = ""
            THEN Outcome(<<>>, Return(Response(RESPONSE_TYPE.ERROR,
                     "Metadata filters are required")))
            ELSE IF ~load_ok
            THEN Outcome(<<>>, Return(Response(RESPONSE_TYPE.ERROR,
                     "Error retrieving collection")))
            ELSE IF ~remote_ok
            THEN Outcome(request, Return(Response(RESPONSE_TYPE.ERROR,
                     "Error deleting from collection")))
            ELSE Outcome(request, Return(Response(RESPONSE_TYPE.OK, "")))

----------------------------------------------------------------------------
(* The calls of MilvusHandler that are checked *)

MaxConditions == 2

MetadataPrice == <<"metadata", ".", "price">>

\* FilterCondition(column, op, value) objects a caller can pass
MilvusConditions ==
    { [column |-> MetadataPrice, op |-> "LESS_THAN", value |-> [t |-> "int", int |-> 1000]],
      [column |-> MetadataPrice, op |-> "GREATER_THAN", value |-> [t |-> "int", int |-> 300]],
      [column |-> <<"metadata", ".", "tags", ".", "kind">>, op |-> "IN",
       value |-> [t |-> "list", list |-> <<1, 2>>]],
      [column |-> <<"metadata", "_source">>, op |-> "EQUAL", value |-> [t |-> "str", str |-> "web"]],
      [column |-> MetadataPrice, op |-> "BETWEEN", value |-> [t |-> "list", list |-> <<1, 2>>]],
      [column |-> <<"search_vector">>, op |-> "EQUAL", value |-> [t |-> "list", list |-> <<1, 2>>]],
      [column |-> <<"content">>, op |-> "EQUAL", value |-> [t |-> "str", str |-> "a"]],
      [column |-> <<"id">>, op |-> "EQUAL", value |-> [t |-> "int", int |-> 7]] }

SeqsUpTo(S, n) == UNION { [1..k -> S] : k \in 0..n }

MilvusRequests ==
    [ columns : {None, Some(<<"content">>)},
      conditions : {None} \cup { Some(cs) : cs \in SeqsUpTo(MilvusConditions, MaxConditions) },
      offset : {None} \cup { Some(n) : n \in {0, 5} },
      limit : {None} \cup { Some(n) : n \in {10, api_limit - 5, api_limit} },
      load_ok : BOOLEAN,
      remote_ok : BOOLEAN ]

NotCalled == Return(None)

\* a MilvusHandler call is about to be made; YoutubeCommentsTable is not used
MilvusInit ==
    /\ mv_request \in MilvusRequests
    /\ mv_remote = <<>>
    /\ mv_response = NotCalled
    /\ mv_pc = "ready"
    /\ yt_request = None
    /\ yt_remote = <<>>
    /\ yt_response = NotCalled
    /\ yt_order_by = None
    /\ yt_pc = "idle"
    /\ llm_request = None
    /\ llm_response = NotCalled
    /\ llm_pc = "idle"
    /\ my_connection = None
    /\ my_request = None
    /\ my_response = NotCalled
    /\ my_was_connected = FALSE
    /\ my_calls = 0
    /\ my_pc = "idle"
    /\ cp_request = None
    /\ cp_remote = <<>>
    /\ cp_response = NotCalled
    /\ cp_pc = "idle"

\* handler.select(table_name, columns, conditions, offset, limit)
Select ==
    /\ mv_pc = "ready"
    /\ \E out \in select(mv_request.columns, mv_request.conditions, mv_request.offset,
                          mv_request.limit, mv_request.load_ok, mv_request.remote_ok) :
           /\ mv_remote' = out.remote
           /\ mv_response' = out.response
    /\ mv_pc' = "select"
    /\ UNCHANGED <<mv_request, yt_vars, llm_vars, my_vars, cp_vars>>

\* handler._translate_metadata_conditions(conditions)
TranslateMetadataConditions ==
    /\ mv_pc = "ready"
    /\ mv_response' = translate_metadata_conditions(mv_request.conditions)
    /\ mv_pc' = "_translate_metadata_conditions"
    /\ UNCHANGED <<mv_request, mv_remote, yt_vars, llm_vars, my_vars, cp_vars>>

\* handler.delete(table_name, conditions)
Delete ==
    /\ mv_pc = "ready"
    /\ LET out == delete(mv_request.conditions, mv_request.load_ok, mv_request.remote_ok)
       IN  /\ mv_remote' = out.remote
           /\ mv_response' = out.response
    /\ mv_pc' = "delete"
    /\ UNCHANGED <<mv_request, yt_vars, llm_vars, my_vars, cp_vars>>

MilvusNext == Select \/ TranslateMetadataConditions \/ Delete

SpecMilvus == MilvusInit /\ [][MilvusNext]_vars

----------------------------------------------------------------------------
(* YoutubeCommentsTable *)

\* YoutubeCommentsTable.get_columns
get_columns ==
    <<"channel_id", "video_id", "user_id", "display_name", "comment",
      "replies.user_id", "replies.reply_author", "replies.reply">>

SeqToSet(s) == { s[i] : i \in 1..Len(s) }

\* bool(value) of a literal of the query: a str or an int
Truthy(value) ==
    CASE value.t = "str" -> value.str # ""
      [] value.t = "int" -> value.int # 0

\* extract_comparison_conditions(query.where): no WHERE gives no conditions,
\* a conjunction of comparisons gives their [op, column, value] triples in
\* order, any other structure is refused
extract_comparison_conditions(where) ==
    IF where = None THEN Return(<<>>)
    ELSE IF where.kind = "and" THEN Return(where.comparisons)
    ELSE Raise("NotImplementedError", "Not implemented")

\* the ORDER BY loop of select over query.order_by[i..]: the columns and
\* directions recorded, or the exception of the first entry that raises
RECURSIVE OrderByLoop(_, _, _)
OrderByLoop(order_by, i, acc) ==
    IF i > Len(order_by) THEN Return(acc)
    ELSE LET an_order == order_by[i]
         IN  IF Len(an_order.parts) < 2
             THEN \* an_order.field.parts[1]
                  Raise("IndexError", "list index out of range")
             ELSE IF an_order.parts[2] \in SeqToSet(get_columns)
             THEN OrderByLoop(order_by, i + 1,
                      [columns |-> Append(acc.columns, an_order.parts[2]),
                       ascending |-> Append(acc.ascending, an_order.direction = "ASC")])
             ELSE Raise("ValueError", "Order by unknown column " \o an_order.parts[2])

\* order_by_conditions of select: its "columns" and "ascending" lists, both
\* empty when the query has no ORDER BY
order_by_conditions(order_by) ==
    IF order_by = None \/ order_by.v = <<>>
    THEN Return([columns |-> <<>>, ascending |-> <<>>])
    ELSE OrderByLoop(order_by.v, 1, [columns |-> <<>>, ascending |-> <<>>])

\* the WHERE loop of select over conditions[i..]: the (channel_id, video_id)
\* found, or the exception of the first condition that raises
RECURSIVE WhereLoop(_, _, _)
WhereLoop(conditions, i, ids) ==
    IF i > Len(conditions) THEN Return(ids)
    ELSE LET a_where == conditions[i]
         IN  IF a_where[2] = "video_id"
             THEN IF a_where[1] # "="
                  THEN Raise("ValueError", "Unsupported where operation for video_id")
                  ELSE WhereLoop(conditions, i + 1,
                                 [ids EXCEPT !.video_id = Some(a_where[3])])
             ELSE IF a_where[2] = "channel_id"
             THEN IF a_where[1] # "="
                  THEN Raise("ValueError", "Unsupported where operation for channel_id")
                  ELSE WhereLoop(conditions, i + 1,
                                 [ids EXCEPT !.channel_id = Some(a_where[3])])
             ELSE Raise("ValueError", "Unsupported where argument " \o a_where[2])

\* the rows pd.json_normalize(data, 'replies', meta, record_prefix='replies.')
\* makes of the comment threads: one row per reply, none for a thread
\* without replies
RECURSIVE NormalizedRows(_)
NormalizedRows(data) ==
    IF data = <<>> THEN <<>>
    ELSE LET c == Head(data)
         IN  [j \in 1..Len(c.replies) |->
                 [channel_id |-> c.channel_id, video_id |-> c.video_id,
                  user_id |-> c.user_id, display_name |-> c.display_name,
                  comment |-> c.comment, reply |-> c.replies[j]]]
             \o NormalizedRows(Tail(data))

\* a row of the DataFrame: its index label and its cells by column name
DataFrameRow(index, r) ==
    [index |-> index,
     cells |-> ("channel_id" :> r.channel_id) @@ ("video_id" :> r.video_id)
               @@ ("user_id" :> r.user_id) @@ ("display_name" :> r.display_name)
               @@ ("comment" :> r.comment)
               @@ ("replies.user_id" :> r.reply.user_id)
               @@ ("replies.reply_author" :> r.reply.reply_author)
               @@ ("replies.reply" :> r.reply.reply)]

DataFrame(columns, rows) == [columns |-> columns, rows |-> rows]

\* one commentThreads().list(...).execute()
ListRequest(video_id, channel_id, pageToken) ==
    [videoId |-> video_id, allThreadsRelatedToChannelId |-> channel_id,
     pageToken |-> pageToken]

\* a fetch loop that, unlike the code, answers a failed page request with the
\* comment threads of the pages before it
RECURSIVE FetchLoopKeepingFetched(_, _, _, _, _, _)
FetchLoopKeepingFetched(video_id, channel_id, pages, i, requests, data) ==
    LET sent == Append(requests,
                       ListRequest(video_id, channel_id,
                                   IF requests = <<>> THEN None ELSE Some(i)))
    IN  IF ~pages[i].ok
        THEN Outcome(sent, Return(data))
        ELSE IF pages[i].nextPageToken # None
        THEN FetchLoopKeepingFetched(video_id, channel_id, pages,
                                     pages[i].nextPageToken.v, sent,
                                     data \o pages[i].items)
        ELSE Outcome(sent, Return(data \o pages[i].items))

\* the while loop of call_youtube_comments_api, about to execute the request
\* for page i. pages is what the API holds: page i fails or gives its comment
\* threads, and its nextPageToken, when it has one, is the number of the page
\* the token stands for
RECURSIVE FetchLoop(_, _, _, _, _, _)
FetchLoop(video_id, channel_id, pages, i, requests, data) ==
    LET sent == Append(requests,
                       ListRequest(video_id, channel_id,
                                   IF requests = <<>> THEN None ELSE Some(i)))
    IN  IF ~pages[i].ok
        THEN Outcome(sent, Raise("HttpError", "execute failed"))
        ELSE IF pages[i].nextPageToken # None
        THEN FetchLoop(video_id, channel_id, pages, pages[i].nextPageToken.v, sent,
                       data \o pages[i].items)
        ELSE Outcome(sent, Return(data \o pages[i].items))

call_youtube_comments_api(video_id, channel_id, pages) ==
    LET fetched == FetchLoop(video_id, channel_id, pages, 1, <<>>, <<>>)
    IN  IF fetched.response.raised THEN fetched
        ELSE LET rows == NormalizedRows(fetched.response.value)
             IN  IF rows = <<>>
                 THEN \* without a reply the frame has no 'replies.*' column to select
                      Outcome(fetched.remote,
                              Raise("KeyError", "replies columns not in index"))
                 ELSE Outcome(fetched.remote,
                              Return(DataFrame(get_columns,
                                  [k \in 1..Len(rows) |-> DataFrameRow(k - 1, rows[k])])))

\* the loop of select over query.targets[i..]
RECURSIVE TargetsLoop(_, _, _)
TargetsLoop(targets, i, selected_columns) ==
    IF i > Len(targets) THEN Return(selected_columns)
    ELSE LET target == targets[i]
         IN  IF target.kind = "Star" THEN Return(get_columns)
             ELSE IF target.kind = "Identifier"
             THEN TargetsLoop(targets, i + 1,
                              Append(selected_columns, target.parts[Len(target.parts)]))
             ELSE Raise("ValueError", "Unknown query target " \o target.kind)

\* the rows of the frame with the columns outside selected_columns dropped
drop_unselected(df, selected_columns) ==
    LET kept == SelectSeq(df.columns, LAMBDA c : c \in SeqToSet(selected_columns))
    IN  DataFrame(kept,
                  [k \in 1..Len(df.rows) |->
                      [index |-> df.rows[k].index,
                       cells |-> [c \in SeqToSet(kept) |-> df.rows[k].cells[c]]]])

\* row a sorts strictly before row b under the keys by[k..]
RECURSIVE SortsBefore(_, _, _, _, _)
SortsBefore(a, b, by, ascending, k) ==
    IF k > Len(by) THEN FALSE
    ELSE IF a.cells[by[k]] = b.cells[by[k]]
    THEN SortsBefore(a, b, by, ascending, k + 1)
    ELSE IF ascending[k] THEN a.cells[by[k]] < b.cells[by[k]]
    ELSE a.cells[by[k]] > b.cells[by[k]]

RowOrders(n) ==
    { p \in [1..n -> 1..n] : \A i, j \in 1..n : i # j => p[i] # p[j] }

\* df.sort_values(by=by, ascending=ascending) with the default kind: a key
\* that is no column raises KeyError; several keys are sorted with a stable
\* lexsort, a single key with quicksort, which may leave rows of equal key
\* in any order
sort_values(df, by, ascending) ==
    IF \E k \in 1..Len(by) : by[k] \notin SeqToSet(df.columns)
    THEN { Raise("KeyError", "sort key is not a column") }
    ELSE LET n == Len(df.rows)
             sorted(p) ==
                 \A i, j \in 1..n :
                     i < j => ~SortsBefore(df.rows[p[j]], df.rows[p[i]], by, ascending, 1)
             stable(p) ==
                 \A i, j \in 1..n :
                     (i < j /\ ~SortsBefore(df.rows[p[i]], df.rows[p[j]], by, ascending, 1))
                         => p[i] < p[j]
         IN  { Return(DataFrame(df.columns, [i \in 1..n |-> df.rows[p[i]]])) :
                   p \in { q \in RowOrders(n) :
                             sorted(q) /\ (Len(by) > 1 => stable(q)) } }

\* df.head(n)
head(df, n) ==
    DataFrame(df.columns,
              SubSeq(df.rows, 1, IF n < Len(df.rows) THEN n ELSE Len(df.rows)))

\* select from the targets loop on, the fetched frame at hand
select_shape(query, order_by, df) ==
    LET selected_columns == TargetsLoop(query.targets, 1, <<>>)
    IN  IF selected_columns.raised THEN { selected_columns }
        ELSE LET shaped ==
                     IF Len(df.rows) = 0
                     THEN { Return(DataFrame(selected_columns.value, <<>>)) }
                     ELSE LET kept == drop_unselected(df, selected_columns.value)
                          IN  IF Len(order_by.columns) > 0
                              THEN sort_values(kept, order_by.columns, order_by.ascending)
                              ELSE { Return(kept) }
             IN  { IF r.raised \/ query.limit = None THEN r
                   ELSE Return(head(r.value, query.limit.v)) : r \in shaped }

\* what a select leaves behind: the API requests it made, its outcome, and
\* its order_by_conditions (None while the ORDER BY loop is not through)
SelectOutcome(remote, response, order_by) ==
    [remote |-> remote, response |-> response, order_by |-> order_by]

\* YoutubeCommentsTable.select(query), the API answering with pages: the
\* outcomes the call can have (more than one only where the sort leaves
\* the order of rows open)
CommentsSelect(query, pages) ==
    LET conditions == extract_comparison_conditions(query.where)
    IN  IF conditions.raised THEN { SelectOutcome(<<>>, conditions, None) }
        ELSE
        LET order_by == order_by_conditions(query.order_by)
        IN  IF order_by.raised THEN { SelectOutcome(<<>>, order_by, None) }
            ELSE
            LET ids == WhereLoop(conditions.value, 1,
                                 [channel_id |-> None, video_id |-> None])
                recorded == Some(order_by.value)
            IN  IF ids.raised THEN { SelectOutcome(<<>>, ids, recorded) }
                ELSE IF /\ ids.value.video_id # None /\ Truthy(ids.value.video_id.v)
                        /\ ids.value.channel_id # None /\ Truthy(ids.value.channel_id.v)
                THEN { SelectOutcome(<<>>, Raise("ValueError",
                         "Only one of video_id or channel_id can be present in where clause."),
                         recorded) }
                ELSE
                LET api == call_youtube_comments_api(ids.value.video_id,
                                                     ids.value.channel_id, pages)
                IN  IF api.response.raised
                    THEN { SelectOutcome(api.remote, api.response, recorded) }
                    ELSE { SelectOutcome(api.remote, r, recorded) :
                             r \in select_shape(query, order_by.value, api.response.value) }

----------------------------------------------------------------------------
(* The calls of YoutubeCommentsTable.select that are checked *)

MaxComparisons == 2
MaxOrderBy == 2
MaxTargets == 2

Str(x) == [t |-> "str", str |-> x]

\* [op, column, value] comparisons of a WHERE clause
YoutubeComparisons ==
    { <<"=", "video_id", Str("abc")>>, <<"=", "video_id", Str("")>>,
      <<"=", "channel_id", Str("xyz")>>, <<">", "channel_id", Str("xyz")>>,
      <<"=", "comment", Str("hi")>> }

YoutubeWheres ==
    {None, [kind |-> "or"]}
    \cup { [kind |-> "and", comparisons |-> cs] :
             cs \in SeqsUpTo(YoutubeComparisons, MaxComparisons) \ {<<>>} }

\* ORDER BY entries: the parts of the column reference and the direction
YoutubeOrderings ==
    { [parts |-> <<"comment">>, direction |-> "ASC"],
      [parts |-> <<"comments", "comment">>, direction |-> "ASC"],
      [parts |-> <<"comments", "video_id">>, direction |-> "DESC"],
      [parts |-> <<"comments", "likes">>, direction |-> "ASC"] }

\* projection targets: *, column references, and a literal
YoutubeTargets ==
    { [kind |-> "Star"],
      [kind |-> "Identifier", parts |-> <<"comment">>],
      [kind |-> "Identifier", parts |-> <<"comments", "video_id">>],
      [kind |-> "Identifier", parts |-> <<"likes">>],
      [kind |-> "Constant"] }

YoutubeQueries ==
    [ where : YoutubeWheres,
      order_by : {None} \cup { Some(o) : o \in SeqsUpTo(YoutubeOrderings, MaxOrderBy) \ {<<>>} },
      targets : SeqsUpTo(YoutubeTargets, MaxTargets) \ {<<>>},
      limit : {None, Some(1)} ]

Reply(n) == [user_id |-> n, reply_author |-> n, reply |-> n]

\* a comment thread of the API with its replies; the fields are numbers
\* standing for the texts, ordered as the texts are
Thread(video, comment, replies) ==
    [channel_id |-> 1, video_id |-> video, user_id |-> 1, display_name |-> 1,
     comment |-> comment, replies |-> replies]

\* a page of the API: whether its request succeeds, its comment threads and
\* its nextPageToken
Page(ok, items, nextPageToken) ==
    [ok |-> ok, items |-> items, nextPageToken |-> nextPageToken]

\* what the API answers to the page requests
YoutubeAnswers ==
    { <<Page(TRUE, <<Thread(2, 1, <<Reply(1), Reply(2)>>),
                     Thread(1, 1, <<Reply(3)>>)>>, None)>>,
      <<Page(TRUE, <<Thread(1, 1, <<>>)>>, None)>>,
      <<Page(TRUE, <<>>, None)>>,
      <<Page(FALSE, <<>>, None)>> }

\* a select is about to be made; MilvusHandler is not used
YoutubeInit ==
    /\ yt_request \in [query : YoutubeQueries, pages : YoutubeAnswers]
    /\ yt_remote = <<>>
    /\ yt_response = NotCalled
    /\ yt_order_by = None
    /\ yt_pc = "ready"
    /\ mv_request = None
    /\ mv_remote = <<>>
    /\ mv_response = NotCalled
    /\ mv_pc = "idle"
    /\ llm_request = None
    /\ llm_response = NotCalled
    /\ llm_pc = "idle"
    /\ my_connection = None
    /\ my_request = None
    /\ my_response = NotCalled
    /\ my_was_connected = FALSE
    /\ my_calls = 0
    /\ my_pc = "idle"
    /\ cp_request = None
    /\ cp_remote = <<>>
    /\ cp_response = NotCalled
    /\ cp_pc = "idle"

\* table.select(query)
YoutubeCommentsSelect ==
    /\ yt_pc = "ready"
    /\ \E out \in CommentsSelect(yt_request.query, yt_request.pages) :
           /\ yt_remote' = out.remote
           /\ yt_response' = out.response
           /\ yt_order_by' = out.order_by
    /\ yt_pc' = "select"
    /\ UNCHANGED <<yt_request, mv_vars, llm_vars, my_vars, cp_vars>>

YoutubeNext == YoutubeCommentsSelect

SpecYoutube == YoutubeInit /\ [][YoutubeNext]_vars

----------------------------------------------------------------------------
(* The calls of YoutubeCommentsTable.select against an API that pages *)

MaxPages == 3

\* the comment threads a page may carry
PageItems ==
    { <<>>, <<Thread(1, 1, <<Reply(1), Reply(2)>>)>>, <<Thread(1, 2, <<>>)>> }

\* page i of n: its request fails, or it gives comment threads and, unless
\* it is the last page, possibly the token of the page after it
PagesAt(i, n) ==
    { Page(FALSE, <<>>, None) }
    \cup { Page(TRUE, items, token) :
              items \in PageItems,
              token \in {None} \cup (IF i < n THEN {Some(i + 1)} ELSE {}) }

\* the finitely many pages the API may hold
PagedAnswers ==
    UNION { { pages \in [1..n -> UNION { PagesAt(i, n) : i \in 1..n }] :
                \A i \in 1..n : pages[i] \in PagesAt(i, n) } : n \in 1..MaxPages }

\* SELECT * or SELECT comment FROM comments WHERE video_id = 'abc' [LIMIT 1]
PagingQueries ==
    [ where : { [kind |-> "and",
                 comparisons |-> <<(<<"=", "video_id", Str("abc")>>)>>] },
      order_by : {None},
      targets : { <<[kind |-> "Star"]>>,
                  <<[kind |-> "Identifier", parts |-> <<"comment">>]>> },
      limit : {None, Some(1)} ]

\* a select is about to be made; MilvusHandler is not used
YoutubePagingInit ==
    /\ yt_request \in [query : PagingQueries, pages : PagedAnswers]
    /\ yt_remote = <<>>
    /\ yt_response = NotCalled
    /\ yt_order_by = None
    /\ yt_pc = "ready"
    /\ mv_request = None
    /\ mv_remote = <<>>
    /\ mv_response = NotCalled
    /\ mv_pc = "idle"
    /\ llm_request = None
    /\ llm_response = NotCalled
    /\ llm_pc = "idle"
    /\ my_connection = None
    /\ my_request = None
    /\ my_response = NotCalled
    /\ my_was_connected = FALSE
    /\ my_calls = 0
    /\ my_pc = "idle"
    /\ cp_request = None
    /\ cp_remote = <<>>
    /\ cp_response = NotCalled
    /\ cp_pc = "idle"

SpecYoutubePaging == YoutubePagingInit /\ [][YoutubeNext]_vars

----------------------------------------------------------------------------
(* llm_utils.ft_chat_format_validation *)

\* a chat message is a dict: a function of its keys. Its content is a value
\* with its type, Str(x) for a string
Message(role, content) == ("role" :> role) @@ ("content" :> content)

\* the parameter defaults of ft_chat_format_validation
system_key == "system"
user_key == "user"
assistant_key == "assistant"
role_key == "role"
content_key == "content"
name_key == "name"

valid_keys == <<role_key, content_key, name_key>>
valid_roles == <<system_key, user_key, assistant_key>>

\* a default table that lets an assistant message follow an assistant message
lenient_transitions(state) ==
    IF state = None THEN <<system_key, user_key>>
    ELSE IF state.v = system_key THEN <<user_key>>
    ELSE IF state.v = user_key THEN <<assistant_key>>
    ELSE <<user_key, assistant_key>>

\* transitions[state] of the default table; state is None or Some(role)
transitions(state) ==
    IF state = None THEN <<system_key, user_key>>
    ELSE IF state.v = system_key THEN <<user_key>>
    ELSE IF state.v = user_key THEN <<assistant_key>>
    ELSE <<user_key>>

\* the finite state machine loop over (roles, contents) from message i on
RECURSIVE TransitionsLoop(_, _, _, _)
TransitionsLoop(roles, contents, i, state) ==
    IF i > Len(roles) THEN Return(None)
    ELSE IF roles[i] \notin SeqToSet(valid_roles)
    THEN Raise("Exception", "message #" \o ToString(i) \o ": Invalid role")
    ELSE IF contents[i].t # "str"
    THEN Raise("Exception", "message #" \o ToString(i) \o ": Content should be a string")
    ELSE IF roles[i] \notin SeqToSet(transitions(state))
    THEN Raise("Exception", "message #" \o ToString(i) \o ": Invalid transition")
    ELSE TransitionsLoop(roles, contents, i + 1, Some(roles[i]))

\* ft_chat_format_validation(chat) with the default transitions
ft_chat_format_validation(chat) ==
    IF \E i \in 1..Len(chat) : \E k \in DOMAIN chat[i] : k \notin SeqToSet(valid_keys)
    THEN Raise("Exception", "Each message should only have these keys")
    ELSE IF \E i \in 1..Len(chat) : role_key \notin DOMAIN chat[i]
    THEN Raise("KeyError", role_key)
    ELSE IF \E i \in 1..Len(chat) : content_key \notin DOMAIN chat[i]
    THEN Raise("KeyError", content_key)
    ELSE LET roles == [i \in 1..Len(chat) |-> chat[i][role_key]]
             contents == [i \in 1..Len(chat) |-> chat[i][content_key]]
         IN  IF Len(roles) = 0
             THEN Raise("Exception", "Chat should have at least one message")
             ELSE IF assistant_key \notin SeqToSet(roles)
             THEN Raise("Exception", "Chat should have at least one assistant message")
             ELSE IF user_key \notin SeqToSet(roles)
             THEN Raise("Exception", "Chat should have at least one user message")
             ELSE TransitionsLoop(roles, contents, 1, None)

(* The calls of ft_chat_format_validation that are checked *)

MaxChat == 4

\* well-formed messages of the three roles, and messages with an unknown
\* role, a content that is no string, a name, a key that is not allowed, no
\* content and no role
ChatMessages ==
    { Message("system", Str("s")), Message("user", Str("u")),
      Message("assistant", Str("a")), Message("tool", Str("t")),
      Message("user", [t |-> "int", int |-> 1]),
      Message("user", Str("u")) @@ ("name" :> "bob"),
      Message("assistant", Str("a")) @@ ("weight" :> "0"),
      ("role" :> "user"),
      ("content" :> Str("u")) }

Chats == SeqsUpTo(ChatMessages, MaxChat)

\* a chat is about to be validated; the handlers are not used
ChatValidationInit ==
    /\ llm_request \in [chat : Chats]
    /\ llm_response = NotCalled
    /\ llm_pc = "ready"
    /\ mv_request = None
    /\ mv_remote = <<>>
    /\ mv_response = NotCalled
    /\ mv_pc = "idle"
    /\ yt_request = None
    /\ yt_remote = <<>>
    /\ yt_response = NotCalled
    /\ yt_order_by = None
    /\ yt_pc = "idle"
    /\ my_connection = None
    /\ my_request = None
    /\ my_response = NotCalled
    /\ my_was_connected = FALSE
    /\ my_calls = 0
    /\ my_pc = "idle"
    /\ cp_request = None
    /\ cp_remote = <<>>
    /\ cp_response = NotCalled
    /\ cp_pc = "idle"

\* ft_chat_format_validation(chat)
FtChatFormatValidation ==
    /\ llm_pc = "ready"
    /\ llm_response' = ft_chat_format_validation(llm_request.chat)
    /\ llm_pc' = "ft_chat_format_validation"
    /\ UNCHANGED <<llm_request, mv_vars, yt_vars, my_vars, cp_vars>>

ChatValidationNext == FtChatFormatValidation

SpecChatValidation == ChatValidationInit /\ [][ChatValidationNext]_vars

----------------------------------------------------------------------------
(* llm_utils.ft_chat_formatter, for frames without a chat_json column *)

\* the rows in the order given, whatever the sort keys
unsorted(rows, by) == rows

\* row r put into the sorted rows after every row that does not sort after it
RECURSIVE InsertRow(_, _, _)
InsertRow(rows, r, by) ==
    IF rows = <<>> THEN <<r>>
    ELSE IF SortsBefore(r, Head(rows), by, [k \in 1..Len(by) |-> TRUE], 1)
    THEN <<r>> \o rows
    ELSE <<Head(rows)>> \o InsertRow(Tail(rows), r, by)

\* the rows of df.sort_values(by) where pandas sorts stably (several keys, or
\* kind='stable') or the single key has no duplicates
RECURSIVE stable_sort(_, _)
stable_sort(rows, by) ==
    IF rows = <<>> THEN <<>>
    ELSE InsertRow(stable_sort(SubSeq(rows, 1, Len(rows) - 1), by),
                   rows[Len(rows)], by)

\* df['message_id'].duplicated().any()
duplicated_any(rows, column) ==
    \E i, j \in 1..Len(rows) : i # j /\ rows[i].cells[column] = rows[j].cells[column]

\* step 1 of ft_chat_formatter: the rows sorted on the optional columns
presort(df) ==
    IF "chat_id" \in SeqToSet(df.columns)
    THEN IF "message_id" \in SeqToSet(df.columns)
         THEN Return(stable_sort(df.rows, <<"chat_id", "message_id">>))
         ELSE Return(stable_sort(df.rows, <<"chat_id">>))
    ELSE IF "message_id" \in SeqToSet(df.columns)
    THEN IF duplicated_any(df.rows, "message_id")
         THEN Raise("Exception",
                    "If message_id is provided, it must not contain duplicate IDs.")
         ELSE Return(stable_sort(df.rows, <<"message_id">>))
    ELSE Return(df.rows)

\* step 2b of ft_chat_formatter from row i on: chat is the chat being
\* gathered, chats the chats closed so far
RECURSIVE ChatsLoop(_, _, _, _)
ChatsLoop(rows, i, chat, chats) ==
    IF i > Len(rows)
    THEN IF ft_chat_format_validation(chat).raised
         THEN ft_chat_format_validation(chat)
         ELSE Return(Append(chats, [messages |-> chat]))
    ELSE LET row == rows[i].cells
             event == Message(row["role"], row["content"])
         IN  IF row["role"] = "system" /\ Len(chat) > 0
             THEN IF ft_chat_format_validation(chat).raised
                  THEN ft_chat_format_validation(chat)
                  ELSE ChatsLoop(rows, i + 1, <<event>>,
                                 Append(chats, [messages |-> chat]))
             ELSE ChatsLoop(rows, i + 1, Append(chat, event), chats)

ft_chat_formatter(df) ==
    LET sorted == presort(df)
    IN  IF sorted.raised THEN sorted
        ELSE ChatsLoop(sorted.value, 1, <<>>, <<>>)

(* The calls of ft_chat_formatter that are checked *)

MaxRows == 5

\* the message_id columns of a frame of n rows: ascending, descending, and
\* the same id in every row
MessageIdColumns(n) ==
    { [i \in 1..n |-> i], [i \in 1..n |-> n + 1 - i], [i \in 1..n |-> 1] }

ChatIdColumns(n) == [1..n -> {1, 2}]

\* the frame of the given columns; the content of a row is a text that
\* tells its position in the frame
ChatFrame(roles, chat_id, message_id) ==
    DataFrame(<<"role", "content">>
                  \o (IF chat_id = None THEN <<>> ELSE <<"chat_id">>)
                  \o (IF message_id = None THEN <<>> ELSE <<"message_id">>),
              [i \in 1..Len(roles) |->
                  [index |-> i - 1,
                   cells |-> ("role" :> roles[i]) @@ ("content" :> Str(ToString(i)))
                             @@ (IF chat_id = None THEN <<>>
                                 ELSE "chat_id" :> chat_id.v[i])
                             @@ (IF message_id = None THEN <<>>
                                 ELSE "message_id" :> message_id.v[i])]])

\* a frame is about to be formatted; the handlers are not used
ChatFormatterInit ==
    /\ \E n \in 0..MaxRows :
       \E roles \in [1..n -> SeqToSet(valid_roles)],
          chat_id \in {None} \cup { Some(c) : c \in ChatIdColumns(n) },
          message_id \in {None} \cup { Some(m) : m \in MessageIdColumns(n) } :
           llm_request = [df |-> ChatFrame(roles, chat_id, message_id)]
    /\ llm_response = NotCalled
    /\ llm_pc = "ready"
    /\ mv_request = None
    /\ mv_remote = <<>>
    /\ mv_response = NotCalled
    /\ mv_pc = "idle"
    /\ yt_request = None
    /\ yt_remote = <<>>
    /\ yt_response = NotCalled
    /\ yt_order_by = None
    /\ yt_pc = "idle"
    /\ my_connection = None
    /\ my_request = None
    /\ my_response = NotCalled
    /\ my_was_connected = FALSE
    /\ my_calls = 0
    /\ my_pc = "idle"
    /\ cp_request = None
    /\ cp_remote = <<>>
    /\ cp_response = NotCalled
    /\ cp_pc = "idle"

\* ft_chat_formatter(df)
FtChatFormatter ==
    /\ llm_pc = "ready"
    /\ llm_response' = ft_chat_formatter(llm_request.df)
    /\ llm_pc' = "ft_chat_formatter"
    /\ UNCHANGED <<llm_request, mv_vars, yt_vars, my_vars, cp_vars>>

ChatFormatterNext == FtChatFormatter

SpecChatFormatter == ChatFormatterInit /\ [][ChatFormatterNext]_vars

----------------------------------------------------------------------------
(* llm_utils.validate_args *)

\* validate_args(args, required_keys, keys_collection, extra_keys). args is
\* a dict whose 'using' entry, when present, is the dict of the USING
\* clause, given by the set of its keys; required_keys is a list,
\* keys_collection a list of lists of keys, extra_keys a set
validate_args(args, required_keys, keys_collection, extra_keys) ==
    IF "using" \notin DOMAIN args
    THEN Raise("Exception", "Handler requires a USING clause!")
    ELSE
    LET using == args["using"]
    IN  IF ~\E i \in 1..Len(required_keys) : required_keys[i] \in using
        THEN Raise("Exception", "At least one of the required keys is required")
        ELSE IF \E k \in 1..Len(keys_collection) :
                    /\ keys_collection[k][1] \in using
                    /\ \E x \in 1..Len(keys_collection) :
                           /\ keys_collection[x] # keys_collection[k]
                           /\ keys_collection[x][1] \in using
        THEN Raise("Exception", "Please provide only one of the following key sets")
        ELSE LET known_args ==
                     SeqToSet(required_keys) \cup extra_keys
                     \cup UNION { SeqToSet(keys_collection[k]) :
                                    k \in 1..Len(keys_collection) }
             IN  IF using \ known_args # {}
                 THEN Raise("Exception", "Unknown arguments")
                 ELSE Return(None)

(* The calls of validate_args that are checked *)

\* the keys a USING clause may hold: a required key, two keys of each of
\* two key sets, an extra key and a key that is not known
UsingKeys ==
    { "model_name", "question_column", "context_column", "prompt", "user_column",
      "max_tokens", "temperatur" }

ValidateArgsRequests ==
    [ args : { "target" :> {} } \cup { ("target" :> {}) @@ ("using" :> u) : u \in SUBSET UsingKeys },
      required_keys : { <<"model_name">> },
      keys_collection : { << <<"question_column", "context_column">>,
                             <<"prompt", "user_column">> >> },
      extra_keys : { {"max_tokens"} } ]

\* the arguments of a model are about to be validated; the handlers are
\* not used
ValidateArgsInit ==
    /\ llm_request \in ValidateArgsRequests
    /\ llm_response = NotCalled
    /\ llm_pc = "ready"
    /\ mv_request = None
    /\ mv_remote = <<>>
    /\ mv_response = NotCalled
    /\ mv_pc = "idle"
    /\ yt_request = None
    /\ yt_remote = <<>>
    /\ yt_response = NotCalled
    /\ yt_order_by = None
    /\ yt_pc = "idle"
    /\ my_connection = None
    /\ my_request = None
    /\ my_response = NotCalled
    /\ my_was_connected = FALSE
    /\ my_calls = 0
    /\ my_pc = "idle"
    /\ cp_request = None
    /\ cp_remote = <<>>
    /\ cp_response = NotCalled
    /\ cp_pc = "idle"

\* validate_args(args, required_keys, keys_collection, extra_keys)
ValidateArgs ==
    /\ llm_pc = "ready"
    /\ llm_response' = validate_args(llm_request.args, llm_request.required_keys,
                                     llm_request.keys_collection, llm_request.extra_keys)
    /\ llm_pc' = "validate_args"
    /\ UNCHANGED <<llm_request, mv_vars, yt_vars, my_vars, cp_vars>>

ValidateArgsNext == ValidateArgs

SpecValidateArgs == ValidateArgsInit /\ [][ValidateArgsNext]_vars

----------------------------------------------------------------------------
(* llm_utils.get_completed_prompts *)

\* A template or prompt is kept as the sequence of its characters; offsets
\* into it count from 0 as in Python. base_template[s:e]:
Slice(text, s, e) == SubSeq(text, s + 1, e)

\* text[offset:offset + 2] == twice the character
DoubledAt(text, offset, character) ==
    /\ offset + 2 <= Len(text)
    /\ text[offset + 1] = character
    /\ text[offset + 2] = character

\* list(re.finditer("{{(.*?)}}", text)) from offset pos on: every match
\* starts at the leftmost "{{" that some "}}" closes and ends with the
\* first "}}" after it (the texts have no line break)
RECURSIVE finditer(_, _)
finditer(text, pos) ==
    LET closes(s) == { e \in (s + 2)..Len(text) : DoubledAt(text, e, "}") }
        opens == { s \in pos..Len(text) : DoubledAt(text, s, "{") /\ closes(s) # {} }
    IN  IF opens = {} THEN <<>>
        ELSE LET s == CHOOSE x \in opens : \A y \in opens : x <= y
                 e == CHOOSE x \in closes(s) : \A y \in closes(s) : x <= y
             IN  <<[start |-> s, end |-> e + 2]>> \o finditer(text, e + 2)

\* m[0].replace('{', '').replace('}', '')
column_of(text, m) ==
    Concat(SelectSeq(Slice(text, m.start, m.end), LAMBDA c : c \notin {"{", "}"}))

\* the template list without the text after the last placeholder
template_without_end(base_template, matches) ==
    LET n == Len(matches)
    IN  <<Slice(base_template, 0, matches[1].start)>>
        \o [k \in 1..(n - 1) |->
               Slice(base_template, matches[k].end, matches[k + 1].start)]

\* the template list of get_completed_prompts: the texts before, between
\* and after the placeholders
template_atoms(base_template, matches) ==
    LET n == Len(matches)
        all_spans == [k \in 1..(2 * n) |->
                         IF k % 2 = 1 THEN matches[(k + 1) \div 2].start
                         ELSE matches[k \div 2].end]
        spans == SubSeq(all_spans, 2, 2 * n - 1)
        zipped == [k \in 1..(Len(spans) - 1) |-> <<spans[k], spans[k + 1]>>]
        every_other == [k \in 1..((Len(zipped) + 1) \div 2) |-> zipped[2 * k - 1]]
    IN  <<Slice(base_template, 0, matches[1].start)>>
        \o [k \in 1..Len(every_other) |->
               Slice(base_template, every_other[k][1], every_other[k][2])]
        \o <<Slice(base_template, matches[n].end, Len(base_template))>>

\* the loop over the template list from atom i on, for one row of the frame
RECURSIVE PromptLoop(_, _, _, _, _)
PromptLoop(row, template, columns, i, prompt) ==
    IF i > Len(template) THEN prompt
    ELSE IF i <= Len(columns)
    THEN LET col == IF row[columns[i]] = None THEN <<>> ELSE row[columns[i]].v
         IN  PromptLoop(row, template, columns, i + 1, prompt \o template[i] \o col)
    ELSE PromptLoop(row, template, columns, i + 1, prompt \o template[i])

\* get_completed_prompts(base_template, df); the cells of df are texts, or
\* None where the data is missing
get_completed_prompts(base_template, df) ==
    LET matches == finditer(base_template, 0)
    IN  IF Len(matches) = 0
        THEN Raise("AssertionError", "No placeholders found in the prompt")
        ELSE
        LET columns == [k \in 1..Len(matches) |-> column_of(base_template, matches[k])]
            template == template_atoms(base_template, matches)
        IN  IF \E k \in 1..Len(columns) : columns[k] \notin SeqToSet(df.columns)
            THEN Raise("KeyError", "not in index")
            ELSE Return(
                   [prompts |->
                        [i \in 1..Len(df.rows) |->
                            PromptLoop(df.rows[i], template, columns, 1, <<>>)],
                    empty_prompt_ids |->
                        SelectSeq([i \in 1..Len(df.rows) |-> i - 1],
                                  LAMBDA p : \A k \in 1..Len(columns) :
                                                 df.rows[p + 1][columns[k]] = None)])

(* The calls of get_completed_prompts that are checked *)

MaxPieces == 3
MaxPromptRows == 2

\* what a template is written from: the placeholders of two columns and a
\* character of text
TemplatePieces ==
    { <<"{", "{", "a", "}", "}">>, <<"{", "{", "b", "}", "}">>, <<"x">> }

RECURSIVE Flatten(_)
Flatten(pieces) ==
    IF pieces = <<>> THEN <<>> ELSE Head(pieces) \o Flatten(Tail(pieces))

PromptTemplates == { Flatten(pieces) : pieces \in SeqsUpTo(TemplatePieces, MaxPieces) }

\* rows of a frame with the columns a and b, any cell of which may be missing
PromptRows == [a : {None, Some(<<"1">>)}, b : {None, Some(<<"2">>)}]

PromptFrames ==
    { DataFrame(<<"a", "b">>, rows) : rows \in SeqsUpTo(PromptRows, MaxPromptRows) }

\* a template is about to be completed; the handlers are not used
CompletedPromptsInit ==
    /\ llm_request \in [base_template : PromptTemplates, df : PromptFrames]
    /\ llm_response = NotCalled
    /\ llm_pc = "ready"
    /\ mv_request = None
    /\ mv_remote = <<>>
    /\ mv_response = NotCalled
    /\ mv_pc = "idle"
    /\ yt_request = None
    /\ yt_remote = <<>>
    /\ yt_response = NotCalled
    /\ yt_order_by = None
    /\ yt_pc = "idle"
    /\ my_connection = None
    /\ my_request = None
    /\ my_response = NotCalled
    /\ my_was_connected = FALSE
    /\ my_calls = 0
    /\ my_pc = "idle"
    /\ cp_request = None
    /\ cp_remote = <<>>
    /\ cp_response = NotCalled
    /\ cp_pc = "idle"

\* get_completed_prompts(base_template, df)
GetCompletedPrompts ==
    /\ llm_pc = "ready"
    /\ llm_response' = get_completed_prompts(llm_request.base_template, llm_request.df)
    /\ llm_pc' = "get_completed_prompts"
    /\ UNCHANGED <<llm_request, mv_vars, yt_vars, my_vars, cp_vars>>

CompletedPromptsNext == GetCompletedPrompts

SpecCompletedPrompts == CompletedPromptsInit /\ [][CompletedPromptsNext]_vars

----------------------------------------------------------------------------
(* MySQLHandler (mysql_handler.py); the connection data is valid *)

\* a mysql.connector connection object
Connection(open) == Some([open |-> open])

\* the is_connected property
is_connected(connection) == connection # None /\ connection.v.open

\* what a method leaves behind: self.connection, its outcome, and whether
\* it rolled back
HandlerOutcome(connection, response, rolled_back) ==
    [connection |-> connection, response |-> response, rolled_back |-> rolled_back]

\* connect(); connect_ok tells whether mysql.connector.connect would succeed
connect(connection, connect_ok) ==
    IF is_connected(connection)
    THEN HandlerOutcome(connection, Return(connection), FALSE)
    ELSE IF connect_ok
    THEN HandlerOutcome(Connection(TRUE), Return(Connection(TRUE)), FALSE)
    ELSE HandlerOutcome(connection,
                        Raise("mysql.connector.Error", "Can't connect to MySQL server"),
                        FALSE)

\* a disconnect() that leaves the connection as it is
keep_connection(connection) == connection

\* disconnect(): self.connection after the call
disconnect(connection) ==
    IF ~is_connected(connection) THEN connection ELSE Connection(FALSE)

StatusResponse(success, error_message) ==
    [success |-> success, error_message |-> error_message]

\* check_connection()
check_connection(connection, connect_ok) ==
    LET need_to_close == ~is_connected(connection)
        connected == connect(connection, connect_ok)
        result == IF connected.response.raised
                  THEN StatusResponse(FALSE, Some(connected.response.msg))
                  ELSE StatusResponse(is_connected(connected.connection), None)
    IN  HandlerOutcome(IF result.success /\ need_to_close
                       THEN disconnect(connected.connection)
                       ELSE connected.connection,
                       Return(result), FALSE)

\* what the server does with cur.execute(query): it gives rows, gives none,
\* or fails with a mysql.connector.Error that leaves the connection up or
\* that comes with the loss of the connection
ExecuteResults == {"rows", "no_rows", "error", "connection_lost"}

\* native_query(query)
native_query(connection, connect_ok, execute) ==
    LET need_to_close == ~is_connected(connection)
        connected == connect(connection, connect_ok)
    IN  IF connected.response.raised
        THEN \* the except clause reads the local connection, which was never bound
             HandlerOutcome(connected.connection,
                            Raise("UnboundLocalError",
                                  "local variable 'connection' referenced before assignment"),
                            FALSE)
        ELSE
        LET failed == execute \in {"error", "connection_lost"}
            after == IF execute = "connection_lost" THEN Connection(FALSE)
                     ELSE connected.connection
            response ==
                IF failed THEN Response(RESPONSE_TYPE.ERROR, Some("execute failed"))
                ELSE IF execute = "rows" THEN Response(RESPONSE_TYPE.TABLE, None)
                ELSE Response(RESPONSE_TYPE.OK, None)
        IN  HandlerOutcome(IF need_to_close THEN disconnect(after) ELSE after,
                           Return(response),
                           failed /\ is_connected(after))

(* The calls on a MySQLHandler that are checked *)

MaxCalls == 5

\* a handler has been constructed; the other handlers are not used
MySQLInit ==
    /\ my_connection = None
    /\ my_request = None
    /\ my_response = NotCalled
    /\ my_was_connected = FALSE
    /\ my_calls = 0
    /\ my_pc = "ready"
    /\ mv_request = None
    /\ mv_remote = <<>>
    /\ mv_response = NotCalled
    /\ mv_pc = "idle"
    /\ yt_request = None
    /\ yt_remote = <<>>
    /\ yt_response = NotCalled
    /\ yt_order_by = None
    /\ yt_pc = "idle"
    /\ llm_request = None
    /\ llm_response = NotCalled
    /\ llm_pc = "idle"
    /\ cp_request = None
    /\ cp_remote = <<>>
    /\ cp_response = NotCalled
    /\ cp_pc = "idle"

\* handler.connect()
MySQLConnect ==
    /\ my_pc # "idle" /\ my_calls < MaxCalls
    /\ \E connect_ok \in BOOLEAN :
           LET out == connect(my_connection, connect_ok)
           IN  /\ my_connection' = out.connection
               /\ my_response' = out.response
               /\ my_request' = Some([connect_ok |-> connect_ok, execute |-> "none",
                                      rolled_back |-> out.rolled_back])
    /\ my_was_connected' = is_connected(my_connection)
    /\ my_calls' = my_calls + 1
    /\ my_pc' = "connect"
    /\ UNCHANGED <<mv_vars, yt_vars, llm_vars, cp_vars>>

\* handler.disconnect()
MySQLDisconnect ==
    /\ my_pc # "idle" /\ my_calls < MaxCalls
    /\ my_connection' = disconnect(my_connection)
    /\ my_response' = Return(None)
    /\ my_request' = Some([connect_ok |-> TRUE, execute |-> "none", rolled_back |-> FALSE])
    /\ my_was_connected' = is_connected(my_connection)
    /\ my_calls' = my_calls + 1
    /\ my_pc' = "disconnect"
    /\ UNCHANGED <<mv_vars, yt_vars, llm_vars, cp_vars>>

\* handler.check_connection()
CheckConnection ==
    /\ my_pc # "idle" /\ my_calls < MaxCalls
    /\ \E connect_ok \in BOOLEAN :
           LET out == check_connection(my_connection, connect_ok)
           IN  /\ my_connection' = out.connection
               /\ my_response' = out.response
               /\ my_request' = Some([connect_ok |-> connect_ok, execute |-> "none",
                                      rolled_back |-> out.rolled_back])
    /\ my_was_connected' = is_connected(my_connection)
    /\ my_calls' = my_calls + 1
    /\ my_pc' = "check_connection"
    /\ UNCHANGED <<mv_vars, yt_vars, llm_vars, cp_vars>>

\* handler.native_query(query)
NativeQuery ==
    /\ my_pc # "idle" /\ my_calls < MaxCalls
    /\ \E connect_ok \in BOOLEAN, execute \in ExecuteResults :
           LET out == native_query(my_connection, connect_ok, execute)
           IN  /\ my_connection' = out.connection
               /\ my_response' = out.response
               /\ my_request' = Some([connect_ok |-> connect_ok, execute |-> execute,
                                      rolled_back |-> out.rolled_back])
    /\ my_was_connected' = is_connected(my_connection)
    /\ my_calls' = my_calls + 1
    /\ my_pc' = "native_query"
    /\ UNCHANGED <<mv_vars, yt_vars, llm_vars, cp_vars>>

MySQLNext == MySQLConnect \/ MySQLDisconnect \/ CheckConnection \/ NativeQuery

SpecMySQL == MySQLInit /\ [][MySQLNext]_vars

----------------------------------------------------------------------------
(* NewsTable of the cryptopanic handler (cryptopanic_tables.py) *)

DEFAULT_NUMBER_OF_NEWS == 200

\* the declared columns of the news table (self.columns)
news_columns == <<"title", "kind", "votes">>

\* self.handler.api_token
api_token == "token"

\* conditions.remove(condition): the list without its first element equal
\* to condition
RECURSIVE remove(_, _)
remove(conditions, condition) ==
    IF conditions = <<>> THEN <<>>
    ELSE IF Head(conditions) = condition THEN Tail(conditions)
    ELSE <<Head(conditions)>> \o remove(Tail(conditions), condition)

\* condition[2] if isinstance(condition[2], str) else condition[2].join(',')
\* a value that is not a str is a list, which has no join
joined(value) ==
    IF value.t = "str" THEN Return(value)
    ELSE Raise("AttributeError", "object has no attribute 'join'")

\* the loop of select over the conditions: the iterator of the list reads
\* position i of the list as the body has left it, so the condition that
\* follows a removed one moves into the position just read and is passed over
RECURSIVE ConditionsLoop(_, _, _)
ConditionsLoop(conditions, i, api_condition) ==
    IF i > Len(conditions) THEN Return(api_condition)
    ELSE LET condition == conditions[i]
         IN  IF condition[1] = "=" /\ condition[2] \in {"filters", "currency", "regions"}
             THEN LET value == joined(condition[3])
                      key == IF condition[2] = "currency" THEN "currencies"
                             ELSE condition[2]
                  IN  IF value.raised THEN value
                      ELSE ConditionsLoop(remove(conditions, condition), i + 1,
                                          Put(api_condition, key, value.value))
             ELSE IF condition[1] = "=" /\ condition[2] \in {"kind", "following"}
             THEN ConditionsLoop(remove(conditions, condition), i + 1,
                                 Put(api_condition, condition[2], condition[3]))
             ELSE ConditionsLoop(conditions, i + 1, api_condition)

\* ceil(DEFAULT_NUMBER_OF_NEWS // 200) if limit is None else ceil(limit // 200)
lookback(limit) ==
    IF limit = None THEN DEFAULT_NUMBER_OF_NEWS \div 200 ELSE limit.v \div 200

\* call_cryptopanic_api(**api_condition): the frame the API answers to the
\* request
call_cryptopanic_api(api_condition, answer) ==
    [remote |-> <<RemoteCall("call_cryptopanic_api", api_condition)>>,
     df |-> DataFrame(answer.columns, answer.rows)]

\* the loop of filter_columns over query.targets[i..]
RECURSIVE NewsTargetsLoop(_, _, _)
NewsTargetsLoop(targets, i, columns) ==
    IF i > Len(targets) THEN columns
    ELSE IF targets[i].kind = "Star" THEN news_columns
    ELSE IF targets[i].kind = "Identifier"
    THEN NewsTargetsLoop(targets, i + 1, Append(columns, targets[i].value))
    ELSE NewsTargetsLoop(targets, i + 1, columns)

\* NewsTable.filter_columns: df[columns]
filter_columns(df, query) ==
    LET columns == NewsTargetsLoop(query.targets, 1, <<>>)
    IN  IF \E c \in SeqToSet(columns) : c \notin SeqToSet(df.columns)
        THEN Raise("KeyError", "not in index")
        ELSE Return(DataFrame(columns,
                 [r \in 1..Len(df.rows) |->
                     [c \in SeqToSet(columns) |-> df.rows[r][c]]]))

\* NewsTable.select: the request issued and the frame returned or the
\* exception raised; the frame filter_columns returns is not used
NewsSelect(query, answer) ==
    LET conditions == extract_comparison_conditions(query.where)
    IN  IF conditions.raised THEN Outcome(<<>>, conditions)
        ELSE LET pushed == ConditionsLoop(conditions.value, 1, <<>>)
             IN  IF pushed.raised THEN Outcome(<<>>, pushed)
                 ELSE LET api_condition ==
                              Put(Put(pushed.value, "lookback", lookback(query.limit)),
                                  "api_token", api_token)
                          called == call_cryptopanic_api(api_condition, answer)
                          filtered == filter_columns(called.df, query)
                      IN  IF filtered.raised THEN Outcome(called.remote, filtered)
                          ELSE Outcome(called.remote, Return(called.df))

----------------------------------------------------------------------------
(* The calls of NewsTable.select that are checked *)

MaxNewsConditions == 3
MaxNewsTargets == 2

Num(x) == [t |-> "int", int |-> x]

\* [op, column, value] comparisons of a WHERE clause
NewsComparisons ==
    { <<"=", "currency", Str("BTC")>>, <<"=", "kind", Str("news")>>,
      <<"=", "filters", Str("hot")>>, <<"=", "regions", [t |-> "list", list |-> <<"en", "de">>]>>,
      <<"!=", "kind", Str("media")>>, <<"=", "title", Str("a")>>,
      <<">", "votes", Num(1)>> }

NewsWheres ==
    {None, [kind |-> "or"]}
    \cup { [kind |-> "and", comparisons |-> cs] :
             cs \in SeqsUpTo(NewsComparisons, MaxNewsConditions) \ {<<>>} }

\* projection targets: *, column references, and a literal
NewsTargets ==
    { [kind |-> "Star"],
      [kind |-> "Identifier", value |-> "title"],
      [kind |-> "Identifier", value |-> "votes"],
      [kind |-> "Identifier", value |-> "url"],
      [kind |-> "Constant"] }

NewsQueries ==
    [ where : NewsWheres,
      targets : SeqsUpTo(NewsTargets, MaxNewsTargets) \ {<<>>},
      limit : {None, Some(450)} ]

\* a row of the API's frame
NewsRow(title, kind, votes) ==
    [title |-> Str(title), kind |-> Str(kind), votes |-> Num(votes)]

\* the frames the API answers with: the declared columns, fewer, more
NewsAnswers ==
    { [columns |-> <<"title", "kind", "votes">>,
       rows |-> <<NewsRow("a", "news", 2), NewsRow("b", "media", 1)>>],
      [columns |-> <<"title", "kind", "votes">>, rows |-> <<>>],
      [columns |-> <<"title">>, rows |-> <<[title |-> Str("b")]>>],
      [columns |-> <<"title", "kind", "votes", "url">>,
       rows |-> <<[title |-> Str("a"), kind |-> Str("news"), votes |-> Num(2),
                   url |-> Str("u")]>>] }

\* a select is about to be made on the news table; no other component is used
CryptopanicInit ==
    /\ cp_request \in [query : NewsQueries, answer : NewsAnswers]
    /\ cp_remote = <<>>
    /\ cp_response = NotCalled
    /\ cp_pc = "ready"
    /\ mv_request = None
    /\ mv_remote = <<>>
    /\ mv_response = NotCalled
    /\ mv_pc = "idle"
    /\ yt_request = None
    /\ yt_remote = <<>>
    /\ yt_response = NotCalled
    /\ yt_order_by = None
    /\ yt_pc = "idle"
    /\ llm_request = None
    /\ llm_response = NotCalled
    /\ llm_pc = "idle"
    /\ my_connection = None
    /\ my_request = None
    /\ my_response = NotCalled
    /\ my_was_connected = FALSE
    /\ my_calls = 0
    /\ my_pc = "idle"

\* table.select(query)
NewsTableSelect ==
    /\ cp_pc = "ready"
    /\ LET out == NewsSelect(cp_request.query, cp_request.answer)
       IN  /\ cp_remote' = out.remote
           /\ cp_response' = out.response
    /\ cp_pc' = "select"
    /\ UNCHANGED <<cp_request, mv_vars, yt_vars, llm_vars, my_vars>>

CryptopanicNext == NewsTableSelect

SpecCryptopanic == CryptopanicInit /\ [][CryptopanicNext]_vars

----------------------------------------------------------------------------
(* YoutubeChannelsTable and YoutubeVideosTable (youtube_tables.py) *)

\* YoutubeChannelsTable.get_columns
channel_columns ==
    <<"country", "description", "creation_date", "title", "subscriber_count",
      "video_count", "view_count", "channel_id">>

\* the columns of the frame get_video_details builds
video_columns ==
    <<"channel_title", "comment_count", "description", "like_count",
      "publish_time", "title", "transcript", "video_id", "view_count",
      "duration_str">>

\* SELECTQueryParser.parse_query: the conditions of the WHERE clause; the
\* queries checked select every column and hold no ORDER BY and no LIMIT
parse_query(query) == extract_comparison_conditions(query.where)

\* the loop of select over where_conditions[i..] that looks for the id of
\* the lookup: the value of the first condition on id_column if its operator
\* is '=', an exception if it is another operator, else None
RECURSIVE IdLoop(_, _, _)
IdLoop(where_conditions, i, id_column) ==
    IF i > Len(where_conditions) THEN Return(None)
    ELSE LET op == where_conditions[i][1]
             arg1 == where_conditions[i][2]
             arg2 == where_conditions[i][3]
         IN  IF arg1 = id_column
             THEN IF op = "=" THEN Return(Some(arg2))
                  ELSE Raise("NotImplementedError",
                             "Only '=' operator is supported for " \o id_column \o " column.")
             ELSE IdLoop(where_conditions, i + 1, id_column)

\* the frame of one row get_channel_details and get_video_details build from
\* the first item of the answer; the fields of the item are texts
details_frame(columns, id_column, id) ==
    DataFrame(columns,
        <<[c \in SeqToSet(columns) |->
              IF c = id_column THEN id
              ELSE IF c = "title" THEN Str("t") ELSE Str("x")]>>)

\* get_channel_details and get_video_details: the list request with the id
\* and the frame built from its answer
get_details(method, columns, id_column, id, answer) ==
    LET request == <<RemoteCall(method,
                        ("part" :> Str("statistics,snippet,contentDetails"))
                        @@ ("id" :> id))>>
    IN  IF ~answer.ok THEN Outcome(request, Raise("HttpError", "request failed"))
        ELSE IF answer.items = 0
        THEN Outcome(request, Raise("IndexError", "list index out of range"))
        ELSE Outcome(request, Return(details_frame(columns, id_column, id)))

\* whether a row passes a condition of the WHERE clause
passes(row, condition) ==
    IF condition[1] = "=" THEN row[condition[2]] = condition[3]
    ELSE row[condition[2]] # condition[3]

\* SELECTQueryExecutor.execute_query: the rows of the frame that pass every
\* condition
execute_query(df, where_conditions) ==
    DataFrame(df.columns,
        SelectSeq(df.rows,
            LAMBDA row : \A i \in 1..Len(where_conditions) :
                             passes(row, where_conditions[i])))

\* select of YoutubeChannelsTable and of YoutubeVideosTable, which differ in
\* the id column, the columns and the list request
LookupSelect(method, columns, id_column, query, answer) ==
    LET where_conditions == parse_query(query)
    IN  IF where_conditions.raised THEN Outcome(<<>>, where_conditions)
        ELSE LET id == IdLoop(where_conditions.value, 1, id_column)
             IN  IF id.raised THEN Outcome(<<>>, id)
                 ELSE IF id.value = None \/ ~Truthy(id.value.v)
                 THEN Outcome(<<>>, Raise("NotImplementedError",
                          id_column \o " has to be present in where clause."))
                 ELSE LET details == get_details(method, columns, id_column,
                                                 id.value.v, answer)
                      IN  IF details.response.raised THEN details
                          ELSE Outcome(details.remote,
                                   Return(execute_query(details.response.value,
                                                        where_conditions.value)))

\* YoutubeChannelsTable.select
ChannelsSelect(query, answer) ==
    LookupSelect("channels().list", channel_columns, "channel_id", query, answer)

\* YoutubeVideosTable.select
VideosSelect(query, answer) ==
    LookupSelect("videos().list", video_columns, "video_id", query, answer)

----------------------------------------------------------------------------
(* The calls of YoutubeChannelsTable.select and YoutubeVideosTable.select
   that are checked *)

MaxLookupConditions == 3

\* [op, column, value] comparisons of a WHERE clause on columns of the table
LookupComparisons(id_column) ==
    { <<op, column, value>> :
        op \in {"=", "!="}, column \in {id_column, "title"},
        value \in {Str("a"), Str("b"), Str("")} }

LookupWheres(id_column) ==
    {None, [kind |-> "or"]}
    \cup { [kind |-> "and", comparisons |-> cs] :
             cs \in SeqsUpTo(LookupComparisons(id_column), MaxLookupConditions) \ {<<>>} }

\* what the API answers to the list request: whether it succeeds and the
\* number of items it holds
LookupAnswers == [ok : BOOLEAN, items : {0, 1}]

\* a select is about to be made on the channels or the videos table; no other
\* component is used
YoutubeLookupInit ==
    /\ \E table \in {"channels", "videos"} :
           yt_request \in
               [table : {table},
                query : [where : LookupWheres(IF table = "channels" THEN "channel_id"
                                              ELSE "video_id")],
                answer : LookupAnswers]
    /\ yt_remote = <<>>
    /\ yt_response = NotCalled
    /\ yt_order_by = None
    /\ yt_pc = "ready"
    /\ mv_request = None
    /\ mv_remote = <<>>
    /\ mv_response = NotCalled
    /\ mv_pc = "idle"
    /\ llm_request = None
    /\ llm_response = NotCalled
    /\ llm_pc = "idle"
    /\ my_connection = None
    /\ my_request = None
    /\ my_response = NotCalled
    /\ my_was_connected = FALSE
    /\ my_calls = 0
    /\ my_pc = "idle"
    /\ cp_request = None
    /\ cp_remote = <<>>
    /\ cp_response = NotCalled
    /\ cp_pc = "idle"

\* channels.select(query)
YoutubeChannelsSelect ==
    /\ yt_pc = "ready"
    /\ yt_request.table = "channels"
    /\ LET out == ChannelsSelect(yt_request.query, yt_request.answer)
       IN  /\ yt_remote' = out.remote
           /\ yt_response' = out.response
    /\ yt_pc' = "lookup"
    /\ UNCHANGED <<yt_request, yt_order_by, mv_vars, llm_vars, my_vars, cp_vars>>

\* videos.select(query)
YoutubeVideosSelect ==
    /\ yt_pc = "ready"
    /\ yt_request.table = "videos"
    /\ LET out == VideosSelect(yt_request.query, yt_request.answer)
       IN  /\ yt_remote' = out.remote
           /\ yt_response' = out.response
    /\ yt_pc' = "lookup"
    /\ UNCHANGED <<yt_request, yt_order_by, mv_vars, llm_vars, my_vars, cp_vars>>

YoutubeLookupNext == YoutubeChannelsSelect \/ YoutubeVideosSelect

SpecYoutubeLookup == YoutubeLookupInit /\ [][YoutubeLookupNext]_vars

----------------------------------------------------------------------------
(* Claims about MilvusHandler, checked under SpecMilvus *)

IsMetadata(c) == StartsWith(c.column, TableField.METADATA)
IsSearchVector(c) == c.column = <<TableField.SEARCH_VECTOR>>

ConditionsOf(request) == IF request.conditions = None THEN <<>> ELSE request.conditions.v

HasSearchVector(request) ==
    \E i \in 1..Len(ConditionsOf(request)) : IsSearchVector(ConditionsOf(request)[i])

MetadataConditionsOf(request) == SelectSeq(ConditionsOf(request), IsMetadata)

\* limit + offset with an absent limit or offset counted as 0
Window(request) ==
    (IF request.limit = None THEN 0 ELSE request.limit.v)
    + (IF request.offset = None THEN 0 ELSE request.offset.v)

ReturnedError(response) ==
    ~response.raised /\ response.value.resp_type = RESPONSE_TYPE.ERROR

\* the filter the claims expect for a list of metadata conditions
ClaimedTerm(c) ==
    "(" \o Concat(LastSegment(c.column)) \o " " \o mapping[c.op] \o " "
    \o FormatValue(c.value) \o ")"

ClaimedExpr(metadata_conditions) ==
    Join(" and ", [i \in 1..Len(metadata_conditions) |->
                       ClaimedTerm(metadata_conditions[i])])

\* the caller names the output columns, the collection loads and the search
\* or query succeeds: nothing but the request itself decides the outcome
PlainCall(request) ==
    request.columns # None /\ request.load_ok /\ request.remote_ok

\* C1: a select (a plain call) whose window limit + offset, an absent one
\* counted as 0, reaches api_limit returns an ERROR response and issues
\* neither search nor query.
C1_CeilingRejected ==
    (mv_pc = "select" /\ PlainCall(mv_request) /\ Window(mv_request) >= api_limit)
        => (ReturnedError(mv_response) /\ mv_remote = <<>>)

\* C2: for a non-empty condition list with metadata conditions, the
\* translation is the ' and '-join, in input order, of one term
\* '(<last segment> <Milvus token> <value>)' per metadata condition.
C2_TranslationIsJoinedTerms ==
    (/\ mv_pc = "_translate_metadata_conditions"
     /\ MetadataConditionsOf(mv_request) # <<>>
     /\ \A i \in 1..Len(MetadataConditionsOf(mv_request)) :
            MetadataConditionsOf(mv_request)[i].op \in DOMAIN mapping)
        => (/\ ~mv_response.raised
            /\ mv_response.value = Some(ClaimedExpr(MetadataConditionsOf(mv_request))))

\* the operators of the Condition model
ConditionOperators ==
    {"EQUAL", "NOT_EQUAL", "LESS_THAN", "LESS_THAN_OR_EQUAL", "GREATER_THAN",
     "GREATER_THAN_OR_EQUAL", "IN", "NOT_IN", "LIKE", "NOT_LIKE"}

\* C3: each of the ten operators has a Milvus token in the table, and
\* translating a metadata condition whose operator is not in the table
\* fails with an error that names that operator.
C3_UnmappedOperatorNamed ==
    /\ \A op \in ConditionOperators : ~get_milvus_operator(op).raised
    /\ (/\ mv_pc = "_translate_metadata_conditions"
        /\ \E i \in 1..Len(MetadataConditionsOf(mv_request)) :
               MetadataConditionsOf(mv_request)[i].op \notin DOMAIN mapping)
           => (/\ mv_response.raised
               /\ \E i \in 1..Len(MetadataConditionsOf(mv_request)) :
                    LET op == MetadataConditionsOf(mv_request)[i].op
                    IN  /\ op \notin DOMAIN mapping
                        /\ mv_response.msg = get_milvus_operator(op).msg)

\* C4: a select (a plain call) with a search_vector condition and neither
\* limit nor offset issues its remote request with limit 100, never without
\* a limit.
C4_SearchDefaultLimit ==
    (/\ mv_pc = "select"
     /\ PlainCall(mv_request)
     /\ HasSearchVector(mv_request)
     /\ mv_request.limit = None /\ mv_request.offset = None)
        => \A i \in 1..Len(mv_remote) :
               /\ "limit" \in DOMAIN mv_remote[i].kwargs
               /\ mv_remote[i].kwargs["limit"] = default_query_limit

\* C5: a select (a plain call) with limit and offset both given and
\* limit + offset below api_limit issues one remote request, which carries
\* exactly that limit and that offset.
C5_LimitOffsetPushed ==
    (/\ mv_pc = "select"
     /\ PlainCall(mv_request)
     /\ mv_request.limit # None /\ mv_request.offset # None
     /\ mv_request.limit.v + mv_request.offset.v < api_limit)
        => (/\ Len(mv_remote) = 1
            /\ "limit" \in DOMAIN mv_remote[1].kwargs
            /\ mv_remote[1].kwargs["limit"] = mv_request.limit.v
            /\ "param" \in DOMAIN mv_remote[1].kwargs
            /\ "offset" \in DOMAIN mv_remote[1].kwargs["param"]
            /\ mv_remote[1].kwargs["param"]["offset"] = mv_request.offset.v)

\* the window check of select lets the request through
WindowAccepted(request) ==
    ~(request.limit # None /\ request.offset # None
      /\ request.limit.v + request.offset.v >= api_limit)

\* C6: a select (a plain call with an accepted window) whose conditions
\* hold a search_vector condition issues collection.search with the search
\* vectors as data and the translation of the request's metadata conditions
\* as expr; without such a condition it issues collection.query.
C6_SearchTakesPrecedence ==
    (mv_pc = "select" /\ PlainCall(mv_request) /\ WindowAccepted(mv_request))
        => /\ Len(mv_remote) = 1
           /\ IF HasSearchVector(mv_request)
              THEN /\ mv_remote[1].method = "search"
                   /\ mv_remote[1].kwargs["data"] =
                        LET found == SelectSeq(ConditionsOf(mv_request), IsSearchVector)
                        IN  [i \in 1..Len(found) |-> found[i].value]
                   /\ mv_remote[1].kwargs["expr"] =
                        IF MetadataConditionsOf(mv_request) = <<>> THEN None
                        ELSE Some(ClaimedExpr(MetadataConditionsOf(mv_request)))
              ELSE mv_remote[1].method = "query"

\* the conditions of a request on the id column
IdConditionsOf(request) ==
    SelectSeq(ConditionsOf(request), LAMBDA c : c.column = <<TableField.ID>>)

\* the request can be deleted by: no condition on the id column, and
\* metadata conditions, all with operators of the table, to translate
Deletable(request) ==
    /\ IdConditionsOf(request) = <<>>
    /\ MetadataConditionsOf(request) # <<>>
    /\ \A i \in 1..Len(MetadataConditionsOf(request)) :
           MetadataConditionsOf(request)[i].op \in DOMAIN mapping

\* the collection.delete requests among the remote calls made
DeleteCalls == SelectSeq(mv_remote, LAMBDA call : call.method = "delete")

\* C26: a delete whose conditions hold no condition on the id column and
\* translate to a non-empty filter issues collection.delete, if the
\* collection is found, with exactly that filter; every other delete, one
\* without conditions included, returns an ERROR response and issues no
\* collection.delete.
C26_DeleteOnlyByMetadataFilter ==
    mv_pc = "delete" =>
        IF Deletable(mv_request)
        THEN IF mv_request.load_ok
             THEN /\ ~mv_response.raised
                  /\ Len(DeleteCalls) = 1
                  /\ DeleteCalls[1].kwargs["expr"] =
                         Some(ClaimedExpr(MetadataConditionsOf(mv_request)))
             ELSE ReturnedError(mv_response) /\ DeleteCalls = <<>>
        ELSE ReturnedError(mv_response) /\ DeleteCalls = <<>>

----------------------------------------------------------------------------
(* Claims about YoutubeCommentsTable.select, checked under SpecYoutube *)

ComparisonsOf(query) ==
    IF query.where # None /\ query.where.kind = "and"
    THEN query.where.comparisons ELSE <<>>

GivesEquality(query, column) ==
    \E i \in 1..Len(ComparisonsOf(query)) :
        ComparisonsOf(query)[i][1] = "=" /\ ComparisonsOf(query)[i][2] = column

\* the API answers every page request
AllPagesOk(pages) == \A i \in 1..Len(pages) : pages[i].ok

\* C7: a select whose WHERE gives both a video_id = ... and a channel_id = ...
\* condition fails with an error and makes no request to the comments API
\* (stated for an API that would answer).
C7_VideoAndChannelExclusive ==
    (/\ yt_pc = "select"
     /\ AllPagesOk(yt_request.pages)
     /\ GivesEquality(yt_request.query, "video_id")
     /\ GivesEquality(yt_request.query, "channel_id"))
        => (yt_response.raised /\ yt_remote = <<>>)

\* C8: a select that fails because the query is invalid (the ValueError of
\* an unsupported WHERE column or operator, an unknown ORDER BY column or
\* an unsupported projection target) has made no request to the API.
C8_InvalidQueryFailsBeforeFetch ==
    (yt_pc = "select" /\ yt_response.raised /\ yt_response.exc = "ValueError")
        => yt_remote = <<>>

\* the column an ORDER BY entry or a projection target names
NamedColumn(parts) == parts[Len(parts)]

OrderByOf(query) == IF query.order_by = None THEN <<>> ELSE query.order_by.v

Declared(column) == column \in SeqToSet(get_columns)

\* C9: in a select whose WHERE is extracted, if every ORDER BY entry names a
\* declared column the entries are recorded in query order, ascending
\* exactly for ASC; otherwise the select fails with 'Order by unknown
\* column' for the first undeclared one.
C9_OrderByRecordedOrRejected ==
    (/\ yt_pc = "select"
     /\ ~extract_comparison_conditions(yt_request.query.where).raised
     /\ OrderByOf(yt_request.query) # <<>>)
        => LET order_by == OrderByOf(yt_request.query)
               undeclared == { i \in 1..Len(order_by) :
                                 ~Declared(NamedColumn(order_by[i].parts)) }
           IN  IF undeclared = {}
               THEN yt_order_by =
                      Some([columns |-> [i \in 1..Len(order_by) |->
                                            NamedColumn(order_by[i].parts)],
                            ascending |-> [i \in 1..Len(order_by) |->
                                            order_by[i].direction = "ASC"]])
               ELSE /\ yt_response.raised
                    /\ yt_response.msg =
                         "Order by unknown column "
                         \o NamedColumn(order_by[CHOOSE i \in undeclared :
                                \A j \in undeclared : i <= j].parts)

\* the targets are references to distinct declared columns
ExplicitProjection(targets) ==
    /\ \A i \in 1..Len(targets) :
           targets[i].kind = "Identifier" /\ Declared(NamedColumn(targets[i].parts))
    /\ \A i, j \in 1..Len(targets) :
           i # j => NamedColumn(targets[i].parts) # NamedColumn(targets[j].parts)

\* C10: a select that returns has, for SELECT *, the declared columns in
\* their declared order and, for an explicit list of columns, exactly the
\* requested columns in the order requested.
C10_ProjectionOrder ==
    (yt_pc = "select" /\ ~yt_response.raised)
        => LET targets == yt_request.query.targets
           IN  /\ targets = <<[kind |-> "Star"]>>
                    => yt_response.value.columns = get_columns
               /\ ExplicitProjection(targets)
                    => yt_response.value.columns =
                         [i \in 1..Len(targets) |-> NamedColumn(targets[i].parts)]

\* the targets are column references, one of them to an undeclared column
ProjectsUndeclared(targets) ==
    /\ \A i \in 1..Len(targets) : targets[i].kind = "Identifier"
    /\ \E i \in 1..Len(targets) : ~Declared(NamedColumn(targets[i].parts))

\* C11: a select whose projection names a column the table does not declare
\* fails with an error; it never returns a table that lacks the column.
C11_UndeclaredProjectionFails ==
    (yt_pc = "select" /\ ProjectsUndeclared(yt_request.query.targets))
        => yt_response.raised

\* a query select accepts: the comments of one video, unordered
OfOneVideo(query) ==
    /\ query.where = [kind |-> "and",
                      comparisons |-> <<(<<"=", "video_id", Str("abc")>>)>>]
    /\ query.order_by = None

\* every page request is answered, and no page has a comment thread
NoItems(pages) == \A i \in 1..Len(pages) : pages[i].ok /\ pages[i].items = <<>>

\* C12: when the API has no comment for the video, SELECT * returns a table
\* of no rows that has all the declared columns; it does not fail.
C12_NoItemsGivesEmptyTable ==
    (/\ yt_pc = "select"
     /\ OfOneVideo(yt_request.query)
     /\ yt_request.query.targets = <<[kind |-> "Star"]>>
     /\ NoItems(yt_request.pages))
        => (/\ ~yt_response.raised
            /\ yt_response.value.rows = <<>>
            /\ yt_response.value.columns = get_columns)

\* rows a and b are equal on every sort key
EqualOnKeys(a, b, by) == \A k \in 1..Len(by) : a.cells[by[k]] = b.cells[by[k]]

\* C15: in the table an ordered select returns, with or without LIMIT, rows
\* that are equal on all the sort keys stand in the order they were fetched
\* in, for one sort key as for several.
C15_SortKeepsFetchOrder ==
    (/\ yt_pc = "select"
     /\ ~yt_response.raised
     /\ yt_order_by # None
     /\ yt_order_by.v.columns # <<>>)
        => LET rows == yt_response.value.rows
           IN  \A i, j \in 1..Len(rows) :
                   (i < j /\ EqualOnKeys(rows[i], rows[j], yt_order_by.v.columns))
                       => rows[i].index < rows[j].index

----------------------------------------------------------------------------
(* Claims about the paging of call_youtube_comments_api, checked under
   SpecYoutubePaging *)

\* the page the k-th request of the select asked for
RequestedPage(k) == IF k = 1 THEN 1 ELSE yt_remote[k].pageToken.v

\* the number of records the first k requests of the select have fetched
RECURSIVE FetchedRecords(_)
FetchedRecords(k) ==
    IF k = 0 THEN 0
    ELSE FetchedRecords(k - 1)
         + Len(NormalizedRows(yt_request.pages[RequestedPage(k)].items))

LimitReached(k) ==
    /\ yt_request.query.limit # None
    /\ FetchedRecords(k) >= yt_request.query.limit.v

\* C13: the pages are requested one after the other, each after the first
\* with the nextPageToken of the page before it, and no page is requested
\* once a page came without nextPageToken or the LIMIT of the query has
\* been reached; the requests end at the first such page (stated for an API
\* that answers every request).
C13_PagingStopsAtTokenOrLimit ==
    (yt_pc = "select" /\ yt_remote # <<>> /\ AllPagesOk(yt_request.pages))
        => LET n == Len(yt_remote)
           IN  /\ yt_remote[1].pageToken = None
               /\ \A k \in 2..n :
                      /\ yt_remote[k].pageToken # None
                      /\ yt_remote[k].pageToken =
                            yt_request.pages[RequestedPage(k - 1)].nextPageToken
                      /\ ~LimitReached(k - 1)
               /\ \/ yt_request.pages[RequestedPage(n)].nextPageToken = None
                  \/ LimitReached(n)

\* C14: when the request of a page, the first or a later one, fails, the
\* select fails with the error of that request: it returns no table, so no
\* record of the pages fetched before.
C14_FailedPageFailsSelect ==
    (/\ yt_pc = "select"
     /\ \E k \in 1..Len(yt_remote) : ~yt_request.pages[RequestedPage(k)].ok)
        => yt_response = Raise("HttpError", "execute failed")

\* a select has fetched a page of comments with replies and the request of
\* the page after it has failed
C14_LaterPageFailed ==
    /\ yt_pc = "select"
    /\ Len(yt_remote) = 2
    /\ NormalizedRows(yt_request.pages[1].items) # <<>>
    /\ ~yt_request.pages[RequestedPage(2)].ok
    /\ yt_response.raised

----------------------------------------------------------------------------
(* Claims about ft_chat_format_validation, checked under SpecChatValidation *)

\* the roles are an optional leading system, then user, assistant, user, ...
\* beginning with user and reaching an assistant
AlternatingRoles(roles) ==
    LET turns == IF roles # <<>> /\ roles[1] = "system" THEN Tail(roles) ELSE roles
    IN  /\ \A k \in 1..Len(turns) :
               turns[k] = (IF k % 2 = 1 THEN "user" ELSE "assistant")
        /\ Len(turns) >= 2

\* what C16 calls a valid chat
ValidChat(chat) ==
    /\ chat # <<>>
    /\ \A i \in 1..Len(chat) :
           /\ DOMAIN chat[i] \subseteq {"role", "content", "name"}
           /\ {"role", "content"} \subseteq DOMAIN chat[i]
           /\ chat[i]["content"].t = "str"
    /\ AlternatingRoles([i \in 1..Len(chat) |-> chat[i]["role"]])

\* C16: with the default transitions ft_chat_format_validation returns
\* without raising exactly for a non-empty chat whose messages have no key
\* besides role, content and name, whose contents are strings and whose
\* roles are an optional leading system followed by user, assistant, ...
\* in strict alternation, beginning with user and having an assistant; for
\* every other chat it raises.
C16_ValidationAcceptsExactlyValidChats ==
    llm_pc = "ft_chat_format_validation"
        => (~llm_response.raised <=> ValidChat(llm_request.chat))

\* a chat of system, user, assistant, user has been accepted
C16_SystemLedChatAccepted ==
    /\ llm_pc = "ft_chat_format_validation"
    /\ ~llm_response.raised
    /\ Len(llm_request.chat) = 4
    /\ llm_request.chat[1]["role"] = "system"

----------------------------------------------------------------------------
(* Claims about ft_chat_formatter, checked under SpecChatFormatter *)

HasColumn(df, column) == column \in SeqToSet(df.columns)

\* the optional columns the frame is sorted by
SortKeys(df) ==
    (IF HasColumn(df, "chat_id") THEN <<"chat_id">> ELSE <<>>)
    \o (IF HasColumn(df, "message_id") THEN <<"message_id">> ELSE <<>>)

\* row a comes before row b by the keys, the first key counting most
Precedes(a, b, by) ==
    \E k \in 1..Len(by) :
        /\ \A l \in 1..(k - 1) : a.cells[by[l]] = b.cells[by[l]]
        /\ a.cells[by[k]] < b.cells[by[k]]

\* the rows sorted by the keys, rows of equal keys in the order given
InSortedOrder(rows, by) ==
    LET n == Len(rows)
        place(i) ==
            1 + Cardinality({ j \in 1..n :
                                \/ Precedes(rows[j], rows[i], by)
                                \/ (EqualOnKeys(rows[j], rows[i], by) /\ j < i) })
    IN  [k \in 1..n |-> rows[CHOOSE i \in 1..n : place(i) = k]]

MessagesOf(rows) ==
    [i \in 1..Len(rows) |-> Message(rows[i].cells["role"], rows[i].cells["content"])]

\* the messages of the rows cut before every system row but the first row
Segments(rows) ==
    LET n == Len(rows)
        starts == {1} \cup { i \in 2..n : rows[i].cells["role"] = "system" }
        m == Cardinality(starts)
        start(k) == CHOOSE s \in starts : Cardinality({ t \in starts : t <= s }) = k
        stop(k) == IF k = m THEN n ELSE start(k + 1) - 1
    IN  [k \in 1..m |-> MessagesOf(SubSeq(rows, start(k), stop(k)))]

MessageIdOnly(df) == HasColumn(df, "message_id") /\ ~HasColumn(df, "chat_id")

C18_MessageIdGivesOneChat ==
    (llm_pc = "ft_chat_formatter" /\ MessageIdOnly(llm_request.df))
        => IF duplicated_any(llm_request.df.rows, "message_id")
           THEN llm_response.raised
           ELSE ~llm_response.raised
                    => llm_response.value =
                         <<[messages |->
                              MessagesOf(InSortedOrder(llm_request.df.rows,
                                                       <<"message_id">>))]>>

----------------------------------------------------------------------------
(* Claims about validate_args, checked under SpecValidateArgs *)

\* the keys of key set k that the USING clause holds
KeysHeld(request, k) == SeqToSet(request.keys_collection[k]) \cap request.args["using"]

HoldsRequiredKey(request) ==
    \E i \in 1..Len(request.required_keys) :
        request.required_keys[i] \in request.args["using"]

HoldsOnlyKnownKeys(request) ==
    request.args["using"] \subseteq
        (SeqToSet(request.required_keys) \cup request.extra_keys
         \cup UNION { SeqToSet(request.keys_collection[k]) :
                        k \in 1..Len(request.keys_collection) })

\* C19: validate_args raises when the USING clause holds more than one key
\* of the same key set of keys_collection, and returns without raising
\* when it holds at most one key of every key set, a required key and no
\* unknown key.
C19_KeySetsAreExclusive ==
    (llm_pc = "validate_args" /\ "using" \in DOMAIN llm_request.args)
        => LET sets == 1..Len(llm_request.keys_collection)
           IN  /\ (\E k \in sets : Cardinality(KeysHeld(llm_request, k)) > 1)
                      => llm_response.raised
               /\ (/\ \A k \in sets : Cardinality(KeysHeld(llm_request, k)) <= 1
                   /\ HoldsRequiredKey(llm_request)
                   /\ HoldsOnlyKnownKeys(llm_request))
                      => ~llm_response.raised

----------------------------------------------------------------------------
(* Claims about get_completed_prompts, checked under SpecCompletedPrompts *)

\* the name a placeholder at the head of the text gives, and the text
\* after the placeholder
PlaceholderName(text) ==
    LET close == CHOOSE e \in 3..Len(text) :
                     text[e] = "}" /\ \A d \in 3..(e - 1) : text[d] # "}"
    IN  Concat(SubSeq(text, 3, close - 1))

AfterPlaceholder(text) ==
    LET close == CHOOSE e \in 3..Len(text) :
                     text[e] = "}" /\ \A d \in 3..(e - 1) : text[d] # "}"
    IN  SubSeq(text, close + 2, Len(text))

\* the template read from left to right, every {{column}} replaced by the
\* row's value of the column, or by nothing where the value is missing
RECURSIVE Filled(_, _)
Filled(text, row) ==
    IF text = <<>> THEN <<>>
    ELSE IF Head(text) = "{"
    THEN (IF row[PlaceholderName(text)] = None THEN <<>>
          ELSE row[PlaceholderName(text)].v)
         \o Filled(AfterPlaceholder(text), row)
    ELSE <<Head(text)>> \o Filled(Tail(text), row)

\* the columns the placeholders of the template name
RECURSIVE PlaceholderColumns(_)
PlaceholderColumns(text) ==
    IF text = <<>> THEN {}
    ELSE IF Head(text) = "{"
    THEN {PlaceholderName(text)} \cup PlaceholderColumns(AfterPlaceholder(text))
    ELSE PlaceholderColumns(Tail(text))

\* C20: for a template with a {{column}} placeholder get_completed_prompts
\* returns, for every row, the template with every placeholder replaced by
\* the row's value of its column (by the empty string where the value is
\* missing), and as empty_prompt_ids the positions of the rows in which
\* every placeholder column is missing; for a template without placeholder
\* the assertion fails.
C20_PromptsAreFilledTemplates ==
    llm_pc = "get_completed_prompts"
        => LET text == llm_request.base_template
               rows == llm_request.df.rows
           IN  IF PlaceholderColumns(text) = {}
               THEN llm_response.raised /\ llm_response.exc = "AssertionError"
               ELSE /\ ~llm_response.raised
                    /\ llm_response.value.prompts =
                           [i \in 1..Len(rows) |-> Filled(text, rows[i])]
                    /\ Len(llm_response.value.empty_prompt_ids) =
                           Cardinality(SeqToSet(llm_response.value.empty_prompt_ids))
                    /\ SeqToSet(llm_response.value.empty_prompt_ids) =
                           { i - 1 : i \in { j \in 1..Len(rows) :
                                 \A c \in PlaceholderColumns(text) : rows[j][c] = None } }

\* prompts have been returned for the template "{{a}}{{a}}{{b}}" and two
\* rows, b missing in the first and both columns in the second
C20_AdjacentPlaceholdersFilled ==
    /\ llm_pc = "get_completed_prompts"
    /\ ~llm_response.raised
    /\ llm_request.base_template =
           <<"{", "{", "a", "}", "}", "{", "{", "a", "}", "}", "{", "{", "b", "}", "}">>
    /\ llm_response.value.prompts = << <<"1", "1">>, <<>> >>
    /\ llm_response.value.empty_prompt_ids = <<1>>

----------------------------------------------------------------------------
(* Claims about MySQLHandler, checked under SpecMySQL *)

\* the last call met a mysql.connector.Error: it had to connect and could
\* not, or the execution of the query failed
MetConnectorError ==
    \/ ~my_was_connected /\ ~my_request.v.connect_ok
    \/ my_request.v.execute \in {"error", "connection_lost"}

\* C21: a native_query that meets a mysql.connector.Error, while connecting
\* or while executing the query, returns a Response of type ERROR that
\* carries the error message; no exception leaves the call.
C21_NativeQueryReturnsError ==
    (my_pc = "native_query" /\ MetConnectorError)
        => /\ ~my_response.raised
           /\ my_response.value.resp_type = RESPONSE_TYPE.ERROR
           /\ my_response.value.error_message # None

----------------------------------------------------------------------------
(* Claims about NewsTable.select, checked under SpecCryptopanic *)

\* the conditions of the query of the call
NewsConditions == cp_request.query.where.comparisons

\* the columns whose '=' conditions the API takes as parameters
PushableColumns == {"filters", "currency", "regions", "kind", "following"}

Pushable(condition) == condition[1] = "=" /\ condition[2] \in PushableColumns

\* the parameter of call_cryptopanic_api a pushable column goes to
ParameterOf(column) == IF column = "currency" THEN "currencies" ELSE column

\* the value of a parameter: the text, or the texts of a list joined by ","
ParameterValue(value) ==
    IF value.t = "list" THEN Str(Join(",", value.list)) ELSE value

\* the select was made on a query whose WHERE is a conjunction
NewsSelectDone ==
    /\ cp_pc = "select"
    /\ cp_request.query.where # None
    /\ cp_request.query.where.kind = "and"

\* C22: after a select on a WHERE conjunction, the request to the API carries,
\* for every '=' condition on filters, currency, regions, kind or following,
\* the parameter of that column with the value of the condition, wherever the
\* condition stands and however many there are.
C22_PushableConditionsPassed ==
    NewsSelectDone =>
        /\ Len(cp_remote) = 1
        /\ \A i \in 1..Len(NewsConditions) :
              Pushable(NewsConditions[i]) =>
                  /\ ParameterOf(NewsConditions[i][2]) \in DOMAIN cp_remote[1].kwargs
                  /\ cp_remote[1].kwargs[ParameterOf(NewsConditions[i][2])] =
                         ParameterValue(NewsConditions[i][3])

\* whether a row meets a condition; a row without the column does not
\* violate it
Meets(row, condition) ==
    condition[2] \in DOMAIN row =>
        CASE condition[1] = "=" -> row[condition[2]] = condition[3]
          [] condition[1] = "!=" -> row[condition[2]] # condition[3]
          [] condition[1] = ">" -> row[condition[2]].int > condition[3].int

\* C23: every row of the table a select on a WHERE conjunction returns meets
\* every condition of the query that is not passed to the API (a condition on
\* another column, or with another operator than '=').
C23_ResidualConditionsApplied ==
    (NewsSelectDone /\ ~cp_response.raised) =>
        \A r \in 1..Len(cp_response.value.rows) :
            \A i \in 1..Len(NewsConditions) :
                ~Pushable(NewsConditions[i]) =>
                    Meets(cp_response.value.rows[r], NewsConditions[i])

\* the columns a projection asks for: the declared ones if it holds a *,
\* else the columns it lists, in order
RECURSIVE ListedColumns(_)
ListedColumns(targets) ==
    IF targets = <<>> THEN <<>>
    ELSE IF Head(targets).kind = "Identifier"
    THEN <<Head(targets).value>> \o ListedColumns(Tail(targets))
    ELSE ListedColumns(Tail(targets))

ProjectedColumns(targets) ==
    IF \E i \in 1..Len(targets) : targets[i].kind = "Star"
    THEN news_columns
    ELSE ListedColumns(targets)

\* C24: the table a select returns has exactly the columns of the projection
\* of the query, whatever columns the API answered with.
C24_ProjectedColumnsReturned ==
    (cp_pc = "select" /\ ~cp_response.raised) =>
        cp_response.value.columns = ProjectedColumns(cp_request.query.targets)

----------------------------------------------------------------------------
(* Claims about YoutubeChannelsTable.select and YoutubeVideosTable.select,
   checked under SpecYoutubeLookup *)

\* the id column of the table of the call
IdColumn == IF yt_request.table = "channels" THEN "channel_id" ELSE "video_id"

\* the conditions of the query of the call
LookupConditions == yt_request.query.where.comparisons

\* the select was made on a query whose WHERE is absent or a conjunction
LookupDone ==
    /\ yt_pc = "lookup"
    /\ yt_request.query.where # None => yt_request.query.where.kind = "and"

\* the positions of the conditions on the id column with the operator ops
IdConditions(ops) ==
    IF yt_request.query.where = None THEN {}
    ELSE { i \in 1..Len(LookupConditions) :
             LookupConditions[i][2] = IdColumn /\ LookupConditions[i][1] \in ops }

\* C25: a select of the channels or videos table whose conditions hold a
\* condition on the id column with another operator than '=', or hold no '='
\* condition on it, raises NotImplementedError without a remote request; any
\* other select makes its lookup with the value of an '=' condition on the id
\* column.
C25_IdConditionDecidesLookup ==
    LookupDone =>
        IF IdConditions({"!="}) # {} \/ IdConditions({"="}) = {}
        THEN /\ yt_response.raised
             /\ yt_response.exc = "NotImplementedError"
             /\ yt_remote = <<>>
        ELSE /\ Len(yt_remote) = 1
             /\ \E i \in IdConditions({"="}) :
                    yt_remote[1].kwargs["id"] = LookupConditions[i][3]

====
